---- MODULE Spec2Model ----
(***************************************************************************)
(* Model of Scenes_Information_Recorder (src/text_recognition.py, main.py, *)
(* files_operations.py).                                                   *)
(*                                                                         *)
(* Python strings are sequences of one-character strings.  A dict is an    *)
(* insertion-ordered sequence of <<key, value>> pairs; an event record is  *)
(* a function from field names to values.  A call that may raise returns   *)
(* [exc |-> name, val |-> value] with exc = "" when it returns normally.   *)
(* video_fps, a float in the program, is held in thousandths (24.0 is      *)
(* 24000, 23.976 is 23976).                                                *)
(***************************************************************************)
EXTENDS Integers, Sequences, FiniteSets, TLC

VARIABLES
    tc_pc,          \* timecode harness: "frame", "ocr", "str", "added", "off"
    video_fps,      \* self.video_fps, in thousandths
    frame_number,   \* argument of convert_current_frame_to_tc (-1: none)
    tc_text,        \* argument of tc_cleanup_from_potential_errors
    time_str,       \* argument of read_tc_add_one_frame
    tc_ret,         \* result of read_tc_add_one_frame
    adr_pc,         \* reduction harness: "call", "done", "off"
    text_dict,      \* argument of remove_all_but_border_cases_found
    new_adr_dict,   \* its result
    merge_pc,       \* merge harness: "call", "done", "off"
    dict_a,         \* arguments of merge_dicts
    dict_b,
    merge_ret,      \* its result, or the exception it raised
    pc,             \* the statement of main() the run is at
    error,          \* the exception that ended the run, and where
    cap_opened,     \* cap.isOpened()
    cap_released,   \* how many times cap.release() was called
    start_frame,    \* self.start_frame
    readable_frames, \* cap.read() succeeds on the frames below this
    frame_kind,     \* what each frame of the video shows in the text area
    tc_mode,        \* how the burned-in timecode reads under OCR
    scene_list,     \* what detect_all_scenes returns
    text_imgs,      \* temp/text_imgs/frame_N.png
    tc_imgs,        \* temp/tc_imgs/frame_N.png
    thumbnails,     \* temp/thumbnails/N.png
    border_imgs,    \* temp/first_last_scene_frames/N.png
    processed_imgs, \* temp/first_last_scene_frames/frame_N.png
    frames_with_embedded_text_id,
    frames_ranges_with_potential_text,
    found_vfx_text,
    frames_not_found,
    found_adr_text,
    merged_text_dict,
    final_text_dict,
    call_pc,        \* single-call harnesses: which function, "done", "off"
    call_args,      \* the arguments of the call
    call_ret,       \* its result
    scan_pc,        \* generate_adr_text: "probe", "walk", "returned",
                    \* "raised", "off"
    scan_i,         \* i, the index of the while loop
    scan_found,     \* found_adr_text, the running ADR map
    walk,           \* the check_previous_or_next_frames call in progress
    scan_ret        \* what generate_adr_text returned

tc_vars == <<tc_pc, frame_number, tc_text, time_str, tc_ret>>

adr_vars == <<adr_pc, text_dict, new_adr_dict>>

merge_vars == <<merge_pc, dict_a, dict_b, merge_ret>>

input_vars ==
    <<cap_opened, start_frame, readable_frames, frame_kind, tc_mode,
      scene_list>>

file_vars == <<text_imgs, tc_imgs, thumbnails, border_imgs, processed_imgs>>

result_vars ==
    <<frames_with_embedded_text_id, frames_ranges_with_potential_text,
      found_vfx_text, frames_not_found, found_adr_text, merged_text_dict,
      final_text_dict>>

run_vars == <<pc, error, cap_released, input_vars, file_vars, result_vars>>

call_vars == <<call_pc, call_args, call_ret>>

scan_vars == <<scan_pc, scan_i, scan_found, walk, scan_ret>>

harness_vars == <<tc_vars, adr_vars, merge_vars, call_vars, scan_vars>>

vars == <<video_fps, harness_vars, run_vars>>

-----------------------------------------------------------------------------
(* Bounds of the model.                                                    *)

MaxWindow == 2
MaxMult == 2
MaxFF == 30
MaxTcTokens == 7
MaxTcLineTokens == 2
MaxAdrKey == 4
BurnedInOffset == 21
MaxMergeKey == 3
VideoLength == 3
MaxMatchPieces == 4
MaxWordLen == 2
MaxWords == 3
MaxRangeEnd == 4
MaxRanges == 3
MaxBlocks == 4
MaxSampleStart == 2
MaxSpan == 30
MaxQNums == 22

\* The stride of the ADR scan.
Stride == 15

-----------------------------------------------------------------------------
(* Strings.                                                                *)

Digits == <<"0", "1", "2", "3", "4", "5", "6", "7", "8", "9">>

IsDigit(c) == \E i \in 1..10 : Digits[i] = c

DigitVal(c) == (CHOOSE i \in 1..10 : Digits[i] = c) - 1

RECURSIVE IntToStr(_)
IntToStr(n) ==
    IF n < 10 THEN <<Digits[n + 1]>>
    ELSE IntToStr(n \div 10) \o <<Digits[(n % 10) + 1]>>

\* f"{n:02d}" for n >= 0: at least two digits, zero padded.
Format02d(n) ==
    LET s == IntToStr(n) IN IF Len(s) < 2 THEN <<"0">> \o s ELSE s

RECURSIVE Join(_)
Join(lines) ==
    IF lines = <<>> THEN <<>> ELSE Head(lines) \o Join(Tail(lines))

RECURSIVE JoinWith(_, _)
JoinWith(sep, lines) ==
    IF lines = <<>> THEN <<>>
    ELSE IF Len(lines) = 1 THEN Head(lines)
    ELSE Head(lines) \o sep \o JoinWith(sep, Tail(lines))

\* str.split(":"): the parts between the separators, empty parts kept.
RECURSIVE SplitFrom(_, _, _)
SplitFrom(s, i, cur) ==
    IF i > Len(s) THEN <<cur>>
    ELSE IF s[i] = ":" THEN <<cur>> \o SplitFrom(s, i + 1, <<>>)
    ELSE SplitFrom(s, i + 1, Append(cur, s[i]))

Split(s) == SplitFrom(s, 1, <<>>)

\* The whitespace of the alphabets used here.
IsSpace(c) == c \in {" ", "\n"}

RECURSIVE StripLeft(_)
StripLeft(s) ==
    IF s # <<>> /\ IsSpace(Head(s)) THEN StripLeft(Tail(s)) ELSE s

\* str.rstrip()
RECURSIVE StripRight(_)
StripRight(s) ==
    IF s # <<>> /\ IsSpace(s[Len(s)])
    THEN StripRight(SubSeq(s, 1, Len(s) - 1))
    ELSE s

\* int(s) accepts surrounding blanks and decimal digits (signs and
\* underscores are outside the alphabets used here).
IsIntLiteral(s) ==
    LET t == StripRight(StripLeft(s)) IN
    t # <<>> /\ \A i \in 1..Len(t) : IsDigit(t[i])

RECURSIVE DigitsToInt(_)
DigitsToInt(t) ==
    IF t = <<>> THEN 0
    ELSE 10 * DigitsToInt(SubSeq(t, 1, Len(t) - 1)) + DigitVal(t[Len(t)])

ParseInt(s) == DigitsToInt(StripRight(StripLeft(s)))

Ok(v) == [exc |-> "", val |-> v]

Raise(e) == [exc |-> e, val |-> <<>>]

WRONG_TC == <<"W", "R", "O", "N", "G", " ", "T", "C">>

EMPTY_TC == <<"E", "M", "P", "T", "Y", " ", "T", "C">>

FormatTc(hours, minutes, seconds, frames) ==
    Format02d(hours) \o <<":">> \o Format02d(minutes) \o <<":">>
        \o Format02d(seconds) \o <<":">> \o Format02d(frames)

-----------------------------------------------------------------------------
(* Timecode utility.                                                       *)

\* int(self.video_fps)
IntFps(fps) == fps \div 1000

ConvertCurrentFrameToTc(n, fps_milli) ==
    LET fps == IntFps(fps_milli)
        hours == n \div (fps * 60 * 60)
        n1 == n % (fps * 60 * 60)
        minutes == n1 \div (fps * 60)
        n2 == n1 % (fps * 60)
        seconds == n2 \div fps
        frames == n2 % fps
    IN  FormatTc(hours, minutes, seconds, frames)

\* frames == self.video_fps compares an int with the float frame rate.
FramesEqualFps(frames, fps_milli) == frames * 1000 = fps_milli

AddOneFrameNoMinuteCarry(hours, minutes, seconds, frames, fps_milli) ==
    LET f1 == frames + 1
        wrapF == FramesEqualFps(f1, fps_milli)
        f2 == IF wrapF THEN 0 ELSE f1
        s1 == IF wrapF THEN seconds + 1 ELSE seconds
        s2 == IF s1 = 60 THEN 0 ELSE s1
    IN  FormatTc(hours, minutes, s2, f2)

AddOneFrame(hours, minutes, seconds, frames, fps_milli) ==
    LET f1 == frames + 1
        wrapF == FramesEqualFps(f1, fps_milli)
        f2 == IF wrapF THEN 0 ELSE f1
        s1 == IF wrapF THEN seconds + 1 ELSE seconds
        wrapS == s1 = 60
        s2 == IF wrapS THEN 0 ELSE s1
        m1 == IF wrapS THEN minutes + 1 ELSE minutes
        wrapM == m1 = 60
        m2 == IF wrapM THEN 0 ELSE m1
        h2 == IF wrapM THEN hours + 1 ELSE hours
    IN  FormatTc(h2, m2, s2, f2)

IsSentinelWrongOnly(s) == s = WRONG_TC

IsSentinel(s) == s = WRONG_TC \/ s = EMPTY_TC

ReadTcAddOneFrame(s, fps_milli) ==
    IF IsSentinel(s) THEN Ok(s)
    ELSE LET parts == Split(s) IN
         IF Len(parts) # 4 \/ \E i \in 1..Len(parts) : ~IsIntLiteral(parts[i])
         THEN Raise("ValueError")
         ELSE Ok(AddOneFrame(ParseInt(parts[1]), ParseInt(parts[2]),
                             ParseInt(parts[3]), ParseInt(parts[4]),
                             fps_milli))

RECURSIVE FindAllTwoDigitsOverlapping(_, _)
FindAllTwoDigitsOverlapping(s, i) ==
    IF i + 1 > Len(s) THEN <<>>
    ELSE IF IsDigit(s[i]) /\ IsDigit(s[i + 1])
         THEN <<<<s[i], s[i + 1]>>>> \o FindAllTwoDigitsOverlapping(s, i + 1)
         ELSE FindAllTwoDigitsOverlapping(s, i + 1)

\* re.findall(r"(\d{2})", s): scan left to right, a match consumes two
\* characters, a failed position is skipped.
RECURSIVE FindAllTwoDigits(_, _)
FindAllTwoDigits(s, i) ==
    IF i + 1 > Len(s) THEN <<>>
    ELSE IF IsDigit(s[i]) /\ IsDigit(s[i + 1])
         THEN <<<<s[i], s[i + 1]>>>> \o FindAllTwoDigits(s, i + 2)
         ELSE FindAllTwoDigits(s, i + 1)

\* tc_text is what read_text_from_image returns: a list holding the list
\* of the image's non-empty lines.  x[3] on a short list raises IndexError,
\* which the function catches.
TcCleanupFromPotentialErrors(ocr, n) ==
    IF ocr = <<>> \/ ocr[1] = <<>> THEN EMPTY_TC
    ELSE LET x == FindAllTwoDigits(Join(ocr[1]), 1) IN
         IF Len(x) < 4 THEN WRONG_TC
         ELSE x[1] \o <<":">> \o x[2] \o <<":">> \o x[3] \o <<":">> \o x[4]

-----------------------------------------------------------------------------
(* Dicts: insertion-ordered sequences of <<key, value>> pairs.             *)

DictKeys(d) == [i \in 1..Len(d) |-> d[i][1]]

DictKeySet(d) == {d[i][1] : i \in 1..Len(d)}

DictHas(d, k) == \E i \in 1..Len(d) : d[i][1] = k

DictGet(d, k) == d[CHOOSE i \in 1..Len(d) : d[i][1] = k][2]

\* d[k] = v: an existing key keeps its place, a new key goes last.
DictSet(d, k, v) ==
    IF DictHas(d, k)
    THEN [i \in 1..Len(d) |-> IF d[i][1] = k THEN <<k, v>> ELSE d[i]]
    ELSE Append(d, <<k, v>>)

\* The pairs of d in increasing key order (keys are unique).
RECURSIVE SortByKey(_)
SortByKey(d) ==
    IF d = <<>> THEN <<>>
    ELSE LET m == CHOOSE i \in 1..Len(d) :
                      \A j \in 1..Len(d) : d[i][1] <= d[j][1]
             rest == [j \in 1..(Len(d) - 1) |->
                          IF j < m THEN d[j] ELSE d[j + 1]]
         IN  <<d[m]>> \o SortByKey(rest)

AdrFrame(text, tc) == ("TEXT" :> text) @@ ("TC" :> tc)

Event(text, tc_in, tc_out, frame_out) ==
    ("TEXT" :> text) @@ ("TC IN" :> tc_in) @@ ("TC OUT" :> tc_out)
        @@ ("FRAME OUT" :> frame_out)

-----------------------------------------------------------------------------
(* Consensus builder.                                                      *)

MaxLen(text_values) ==
    CHOOSE n \in {Len(text_values[j]) : j \in 1..Len(text_values)} :
        \A j \in 1..Len(text_values) : Len(text_values[j]) <= n

\* str.ljust(n)
Ljust(s, n) == s \o [i \in 1..(n - Len(s)) |-> " "]

CountOf(characters, c) ==
    Cardinality({j \in 1..Len(characters) : characters[j] = c})

MostCommonCharLastSeen(characters) ==
    LET best == CHOOSE j \in 1..Len(characters) :
            /\ \A k \in 1..Len(characters) :
                   CountOf(characters, characters[k])
                       <= CountOf(characters, characters[j])
            /\ \A k \in (j + 1)..Len(characters) :
                   CountOf(characters, characters[k])
                       < CountOf(characters, characters[j])
    IN  characters[best]

\* Counter(characters).most_common(1)[0][0]: the highest count, a tie won
\* by the character counted first.
MostCommonChar(characters) ==
    LET best == CHOOSE j \in 1..Len(characters) :
            /\ \A k \in 1..Len(characters) :
                   CountOf(characters, characters[k])
                       <= CountOf(characters, characters[j])
            /\ \A k \in 1..(j - 1) :
                   CountOf(characters, characters[k])
                       < CountOf(characters, characters[j])
    IN  characters[best]

ConstructMostCommonWordStripBoth(text_values) ==
    LET max_length == MaxLen(text_values)
        padded == [j \in 1..Len(text_values) |->
                       Ljust(text_values[j], max_length)]
        column(i) == [j \in 1..Len(text_values) |-> padded[j][i]]
    IN  StripLeft(StripRight([i \in 1..max_length |->
                                 MostCommonChar(column(i))]))

\* text_values is non-empty (max() of an empty list raises ValueError).
ConstructMostCommonWord(text_values) ==
    LET max_length == MaxLen(text_values)
        padded == [j \in 1..Len(text_values) |->
                       Ljust(text_values[j], max_length)]
        column(i) == [j \in 1..Len(text_values) |-> padded[j][i]]
    IN  StripRight([i \in 1..max_length |-> MostCommonChar(column(i))])

-----------------------------------------------------------------------------
(* ADR reduction.                                                          *)

\* The first loop of remove_all_but_border_cases_found over keys[i..]:
\* keys_series is the run being collected, acc the runs closed so far.
RECURSIVE KeyRunsFrom(_, _, _, _)
KeyRunsFrom(keys, i, keys_series, acc) ==
    IF i > Len(keys)
    THEN IF keys_series # <<>>
         THEN Append(acc, <<keys_series[1], keys_series[Len(keys_series)]>>)
         ELSE acc
    ELSE IF keys_series = <<>> \/ keys_series[Len(keys_series)] = keys[i] - 1
         THEN KeyRunsFrom(keys, i + 1, Append(keys_series, keys[i]), acc)
         ELSE KeyRunsFrom(keys, i + 1, <<keys[i]>>,
                  Append(acc, <<keys_series[1],
                                keys_series[Len(keys_series)]>>))

RECURSIVE KeyRunsFromNoTail(_, _, _, _)
KeyRunsFromNoTail(keys, i, keys_series, acc) ==
    IF i > Len(keys) THEN acc
    ELSE IF keys_series = <<>> \/ keys_series[Len(keys_series)] = keys[i] - 1
         THEN KeyRunsFromNoTail(keys, i + 1, Append(keys_series, keys[i]), acc)
         ELSE KeyRunsFromNoTail(keys, i + 1, <<keys[i]>>,
                  Append(acc, <<keys_series[1],
                                keys_series[Len(keys_series)]>>))

FirstAndLastKeyNoTail(d) ==
    KeyRunsFromNoTail(DictKeys(d), 1, <<>>, <<>>)

FirstAndLastKey(d) == KeyRunsFrom(DictKeys(d), 1, <<>>, <<>>)

\* [details["TEXT"] for key, details in text_dict.items()
\*     if ranges[0] <= key <= ranges[1]]
RECURSIVE TextValuesIn(_, _, _)
TextValuesIn(d, lo, hi) ==
    IF d = <<>> THEN <<>>
    ELSE LET kv == Head(d)
             rest == TextValuesIn(Tail(d), lo, hi)
         IN  IF lo <= kv[1] /\ kv[1] <= hi THEN <<kv[2]["TEXT"]>> \o rest
             ELSE rest

BorderEventFrameOutLast(d, ranges, fps_milli) ==
    LET last_tc == DictGet(d, ranges[2])["TC"]
        added == ReadTcAddOneFrame(last_tc, fps_milli)
        tc_out == IF added.exc = "ValueError" THEN last_tc ELSE added.val
    IN  Event(ConstructMostCommonWord(TextValuesIn(d, ranges[1], ranges[2])),
              DictGet(d, ranges[1])["TC"], tc_out, ranges[2])

\* The body of the second loop for one (first, last) pair.
BorderEvent(d, ranges, fps_milli) ==
    LET last_tc == DictGet(d, ranges[2])["TC"]
        added == ReadTcAddOneFrame(last_tc, fps_milli)
        tc_out == IF added.exc = "ValueError" THEN last_tc ELSE added.val
    IN  Event(ConstructMostCommonWord(
                  TextValuesIn(d, ranges[1], ranges[2])),
              DictGet(d, ranges[1])["TC"], tc_out, ranges[2] + 1)

RECURSIVE BorderEventsFrom(_, _, _, _, _)
BorderEventsFrom(d, runs, i, out, fps_milli) ==
    IF i > Len(runs) THEN out
    ELSE BorderEventsFrom(d, runs, i + 1,
             DictSet(out, runs[i][1],
                     BorderEvent(d, runs[i], fps_milli)),
             fps_milli)

RemoveAllButBorderCasesFound(d, fps_milli) ==
    BorderEventsFrom(d, FirstAndLastKey(d), 1, <<>>,
                     fps_milli)

-----------------------------------------------------------------------------
(* Timeline merger.                                                        *)

\* The first loop of merge_dicts from dict_a[i] on; dict_a[key]["text"]
\* raises KeyError when the event has no field "text".
RECURSIVE MergeFromA(_, _, _, _)
MergeFromA(a, b, i, merge_result) ==
    IF i > Len(a) THEN Ok(merge_result)
    ELSE LET key == a[i][1] IN
         IF DictHas(b, key)
         THEN LET ea == a[i][2]
                  eb == DictGet(b, key)
              IN  IF ~("text" \in DOMAIN ea) \/ ~("text" \in DOMAIN eb)
                  THEN Raise("KeyError")
                  ELSE MergeFromA(a, b, i + 1,
                           DictSet(merge_result, key,
                               ("text" :> <<ea["text"], eb["text"]>>)
                                 @@ ("TC IN" :> ea["TC IN"])
                                 @@ ("TC OUT" :> <<ea["TC OUT"],
                                                   eb["TC OUT"]>>)))
         ELSE MergeFromA(a, b, i + 1, DictSet(merge_result, key, a[i][2]))

\* The second loop of merge_dicts from dict_b[i] on.
RECURSIVE MergeFromB(_, _, _, _)
MergeFromB(a, b, i, merge_result) ==
    IF i > Len(b) THEN merge_result
    ELSE IF ~DictHas(a, b[i][1])
         THEN MergeFromB(a, b, i + 1,
                  DictSet(merge_result, b[i][1], b[i][2]))
         ELSE MergeFromB(a, b, i + 1, merge_result)

MergeDictsUnsorted(a, b) ==
    LET first == MergeFromA(a, b, 1, <<>>) IN
    IF first.exc # "" THEN first
    ELSE Ok(MergeFromB(a, b, 1, first.val))

MergeDicts(a, b) ==
    LET first == MergeFromA(a, b, 1, <<>>) IN
    IF first.exc # "" THEN first
    ELSE Ok(SortByKey(MergeFromB(a, b, 1, first.val)))

-----------------------------------------------------------------------------
(* Text matching.                                                          *)

\* str.upper() on the letters of the alphabets used here.
UpperChar(c) ==
    CASE c = "a" -> "A" [] c = "d" -> "D" [] c = "r" -> "R"
      [] c = "v" -> "V" [] c = "f" -> "F" [] c = "x" -> "X"
      [] c = "n" -> "N" [] c = "o" -> "O"
      [] OTHER -> c

Upper(s) == [i \in 1..Len(s) |-> UpperChar(s[i])]

\* Whether re.IGNORECASE matches beginning_chars at position p of line.
TokenAt(line, p, beginning_chars) ==
    /\ p + Len(beginning_chars) - 1 <= Len(line)
    /\ Upper(SubSeq(line, p, p + Len(beginning_chars) - 1))
           = Upper(beginning_chars)

\* re.search(beginning_chars + r"\s*(.+)", line): the leftmost position
\* where the token is followed by at least one more character (\s* gives
\* back what (.+) needs; a line of splitlines() holds no line break, so
\* (.+) runs to the end of the line).
MatchStartsAnchored(line, beginning_chars) ==
    {p \in {1} :
        /\ TokenAt(line, p, beginning_chars)
        /\ p + Len(beginning_chars) <= Len(line)}

MatchStarts(line, beginning_chars) ==
    {p \in 1..Len(line) :
        /\ TokenAt(line, p, beginning_chars)
        /\ p + Len(beginning_chars) <= Len(line)}

MatchText(line, beginning_chars) ==
    LET P == MatchStarts(line, beginning_chars) IN
    IF P = {} THEN <<>>
    ELSE LET p == CHOOSE x \in P : \A y \in P : x <= y
             matched_text == SubSeq(line, p, Len(line))
         IN  Upper(SubSeq(matched_text, 1, 3))
                 \o SubSeq(matched_text, 4, Len(matched_text))

VFX == <<"V", "F", "X">>

ADR == <<"A", "D", "R">>

\* [m for m in (match_text(line, token) for line in lines) if m]
RECURSIVE MatchedLines(_, _)
MatchedLines(lines, token) ==
    IF lines = <<>> THEN <<>>
    ELSE LET m == MatchText(Head(lines), token)
             rest == MatchedLines(Tail(lines), token)
         IN  IF m # <<>> THEN <<m>> \o rest ELSE rest

-----------------------------------------------------------------------------
(* Candidate sampler.                                                      *)

\* floor(log2(n / d)) for integers n, d > 0.
RECURSIVE FloorLog2(_, _)
FloorLog2(n, d) ==
    IF n < d THEN FloorLog2(2 * n, d) - 1
    ELSE IF n >= 2 * d THEN FloorLog2(n, 2 * d) + 1
    ELSE 0

RECURSIVE Pow2(_)
Pow2(p) == IF p = 0 THEN 1 ELSE 2 * Pow2(p - 1)

\* 2^k mod q
RECURSIVE Pow2Mod(_, _)
Pow2Mod(k, q) == IF k = 0 THEN 1 % q ELSE (2 * Pow2Mod(k - 1, q)) % q

\* The binary exponent of the doubles just below the integer n >= 1.
BinadeBelow(n) ==
    IF n = Pow2(FloorLog2(n, 1)) THEN FloorLog2(n, 1) - 1
    ELSE FloorLog2(n, 1)

\* a / b rounded to the nearest integer, a tie to the even one.
RoundHalfEven(a, b) ==
    IF 2 * (a % b) > b \/ (2 * (a % b) = b /\ (a \div b) % 2 = 1)
    THEN (a \div b) + 1
    ELSE a \div b

\* step = delta / div in float64, 53 significant bits: the remainder of
\* delta * 2^(52 - ps) by div, ps the binary exponent of the quotient.  A
\* remainder of more than div / 2 rounds the step up, a smaller one down.
StepRemainder(delta, div) ==
    (delta * Pow2Mod(52 - FloorLog2(delta, div), div)) % div

\* y * step in float64 where i * delta / div is an integer: the number of
\* units in the last place by which the product lies below that integer.
UlpsBelow(delta, div, i, r) ==
    IF r = 0 \/ 2 * r > div THEN 0
    ELSE RoundHalfEven((i * r) \div div,
             Pow2(BinadeBelow((i * delta) \div div)
                      - FloorLog2(delta, div)))

\* floor(y + start) for y = n - j units in the last place.
FloorOfSum(start, n, j) ==
    IF j = 0 THEN start + n
    ELSE IF start = 0 THEN n - 1
    ELSE IF 2 * j <= Pow2(BinadeBelow(n + start) - BinadeBelow(n))
    THEN start + n
    ELSE start + n - 1

\* Element i (from 0) of np.linspace(start, start + delta, num=div,
\* endpoint=False, dtype=int) for 0 <= start, 0 <= delta: float64
\* arange(div) * (delta / div) + start, then floor.  A product that is not
\* an integer is further from one than the rounding can move it.
LinspaceInt(start, delta, div, i) ==
    IF i = 0 \/ delta = 0 \/ (i * delta) % div # 0
    THEN start + ((i * delta) \div div)
    ELSE FloorOfSum(start, (i * delta) \div div,
             UlpsBelow(delta, div, i, StepRemainder(delta, div)))

\* evenly_spaced_nums_from_range(range_list, q_nums, endpoint=False)
EvenlySpacedNumsFromRange(range_list, q_nums) ==
    [i \in 1..q_nums |->
        LinspaceInt(range_list[1], range_list[2] - range_list[1], q_nums,
                    i - 1)]

\* generated_numbers[1:-1]
NumbersFromCenter(generated_numbers) ==
    SubSeq(generated_numbers, 2, Len(generated_numbers) - 1)

\* [range for range in ranges if range[1] >= self.start_frame]
RECURSIVE RangesEndingFrom(_, _)
RangesEndingFrom(ranges, start) ==
    IF ranges = <<>> THEN <<>>
    ELSE IF Head(ranges)[2] >= start
         THEN <<Head(ranges)>> \o RangesEndingFrom(Tail(ranges), start)
         ELSE RangesEndingFrom(Tail(ranges), start)

UpdateStartFrameFilterOnly(ranges, start) ==
    RangesEndingFrom(ranges, start)

UpdateStartFrame(ranges, start) ==
    LET updated_ranges == RangesEndingFrom(ranges, start) IN
    [i \in 1..Len(updated_ranges) |->
        IF updated_ranges[i][1] <= start /\ start <= updated_ranges[i][2]
        THEN <<start, updated_ranges[i][2]>>
        ELSE updated_ranges[i]]

\* list.index(x): the first position holding x.
IndexOf(list, x) == CHOOSE i \in 1..Len(list) :
    list[i] = x /\ \A j \in 1..(i - 1) : list[j] # x

InList(list, x) == \E i \in 1..Len(list) : list[i] = x

\* The loop of check_if_scenes_can_contain_text from numbers_to_check[i].
RECURSIVE PotentialRangesFrom(_, _, _, _)
PotentialRangesFrom(each_scene, numbers_to_check, flagged, i) ==
    IF i > Len(numbers_to_check) THEN <<>>
    ELSE LET sublist == numbers_to_check[i]
             at == IndexOf(numbers_to_check, sublist)
             rest == PotentialRangesFrom(each_scene, numbers_to_check,
                                         flagged, i + 1)
         IN  IF \E j \in 1..Len(sublist) : InList(flagged, sublist[j])
             THEN <<<<each_scene[at][1], each_scene[at][2]>>>> \o rest
             ELSE rest

CheckIfScenesCanContainText(scenes, flagged, start) ==
    LET each_scene == UpdateStartFrame(scenes, start)
        numbers_to_check ==
            [i \in 1..Len(each_scene) |->
                EvenlySpacedNumsFromRange(each_scene[i], 5)]
    IN  PotentialRangesFrom(each_scene, numbers_to_check, flagged, 1)

-----------------------------------------------------------------------------
(* Inputs of the timecode harness.                                         *)

FpsSet == {1000, 2000, 24000, 25000, 23976, 29970}

OcrFpsSet == {25000}

FrameInputs(fps_milli) ==
    LET fps == IntFps(fps_milli)
        bases == {1, fps, fps * 60, fps * 60 * 60, fps * 60 * 60 * 100}
    IN  {x \in {b * m + d : b \in bases, m \in 0..MaxMult,
                            d \in (0 - MaxWindow)..MaxWindow} : x >= 0}

TimeStrInputs ==
    {FormatTc(h, m, s, f) : h \in {0, 99}, m \in {0, 59}, s \in {0, 59},
                            f \in 0..MaxFF}
        \cup {WRONG_TC, EMPTY_TC}

TcTokens == {<<"1">>, <<"2", "3">>, <<":">>}

TokenLines(n) == {Join(ts) : ts \in UNION {[1..k -> TcTokens] : k \in 0..n}}

TcTextInputs ==
    {<<>>} \cup {<<<<>>>>}
        \cup {<<<<l>>>> : l \in TokenLines(MaxTcTokens)}
        \cup {<<<<l1, l2>>>> : l1 \in TokenLines(MaxTcLineTokens) \ {<<>>},
                               l2 \in TokenLines(MaxTcLineTokens) \ {<<>>}}

NoTcText == <<<<<<"-">>>>>>

-----------------------------------------------------------------------------
(* Timecode harness: a frame number is converted, an OCR reading is        *)
(* sanitised, and the resulting string is advanced by one frame.           *)

TcOff ==
    /\ tc_pc = "off"
    /\ frame_number = -1
    /\ tc_text = NoTcText
    /\ time_str = <<>>
    /\ tc_ret = Ok(<<>>)

AdrOff == adr_pc = "off" /\ text_dict = <<>> /\ new_adr_dict = <<>>

MergeOff ==
    merge_pc = "off" /\ dict_a = <<>> /\ dict_b = <<>> /\ merge_ret = Ok(<<>>)

CallOff == call_pc = "off" /\ call_args = <<>> /\ call_ret = <<>>

NoWalk == [mode |-> "none"]

ScanOff ==
    /\ scan_pc = "off"
    /\ scan_i = 0
    /\ scan_found = <<>>
    /\ walk = NoWalk
    /\ scan_ret = Ok(<<>>)

NoError == [stage |-> "", exc |-> ""]

FilesEmpty ==
    /\ text_imgs = {}
    /\ tc_imgs = {}
    /\ thumbnails = {}
    /\ border_imgs = {}
    /\ processed_imgs = {}

ResultsEmpty ==
    /\ frames_with_embedded_text_id = <<>>
    /\ frames_ranges_with_potential_text = <<>>
    /\ found_vfx_text = <<>>
    /\ frames_not_found = <<>>
    /\ found_adr_text = <<>>
    /\ merged_text_dict = <<>>
    /\ final_text_dict = <<>>

RunOff ==
    /\ pc = "off"
    /\ error = NoError
    /\ cap_opened = TRUE
    /\ cap_released = 0
    /\ start_frame = 0
    /\ readable_frames = 0
    /\ frame_kind = <<>>
    /\ tc_mode = "ok"
    /\ scene_list = <<>>
    /\ FilesEmpty
    /\ ResultsEmpty

InitTc ==
    /\ AdrOff
    /\ MergeOff
    /\ RunOff
    /\ CallOff
    /\ ScanOff
    /\ tc_ret = Ok(<<>>)
    /\ \/ /\ tc_pc = "frame"
          /\ video_fps \in FpsSet
          /\ frame_number \in FrameInputs(video_fps)
          /\ tc_text = NoTcText
          /\ time_str = <<>>
       \/ /\ tc_pc = "str"
          /\ video_fps \in FpsSet
          /\ frame_number = -1
          /\ tc_text = NoTcText
          /\ time_str \in TimeStrInputs
       \/ /\ tc_pc = "ocr"
          /\ video_fps \in OcrFpsSet
          /\ frame_number = -1
          /\ tc_text \in TcTextInputs
          /\ time_str = <<>>

ConvertCall ==
    /\ tc_pc = "frame"
    /\ time_str' = ConvertCurrentFrameToTc(frame_number, video_fps)
    /\ tc_pc' = "str"
    /\ UNCHANGED <<video_fps, frame_number, tc_text, tc_ret, adr_vars,
                   merge_vars, run_vars, call_vars,
                   scan_vars>>

TcCleanupCall ==
    /\ tc_pc = "ocr"
    /\ time_str' = TcCleanupFromPotentialErrors(tc_text, 0)
    /\ tc_pc' = "str"
    /\ UNCHANGED <<video_fps, frame_number, tc_text, tc_ret, adr_vars,
                   merge_vars, run_vars, call_vars,
                   scan_vars>>

ReadTcAddOneFrameCall ==
    /\ tc_pc = "str"
    /\ tc_ret' = ReadTcAddOneFrame(time_str, video_fps)
    /\ tc_pc' = "added"
    /\ UNCHANGED <<video_fps, frame_number, tc_text, time_str, adr_vars,
                   merge_vars, run_vars, call_vars,
                   scan_vars>>

NextTc == ConvertCall \/ TcCleanupCall \/ ReadTcAddOneFrameCall

SpecTc == InitTc /\ [][NextTc]_vars

-----------------------------------------------------------------------------
(* Reduction harness: remove_all_but_border_cases_found on an ADR map with *)
(* ascending keys, as generate_adr_text passes it.                         *)

\* The timecode burned into frame k.
BurnedInTc(k, fps_milli) ==
    ConvertCurrentFrameToTc(k + BurnedInOffset, fps_milli)

AdrTexts ==
    {<<"A", "D", "R", " ", "a">>, <<"A", "D", "R", " ", "b", "c">>}

\* The pairs of a function on a set of integers, in increasing key order.
RECURSIVE AscendingDict(_, _)
AscendingDict(K, f) ==
    IF K = {} THEN <<>>
    ELSE LET k == CHOOSE x \in K : \A y \in K : x <= y
         IN  <<<<k, f[k]>>>> \o AscendingDict(K \ {k}, f)

TextDictInputs(fps_milli) ==
    UNION {{AscendingDict(K,
                [k \in K |-> AdrFrame(c[k][1],
                    IF c[k][2] THEN BurnedInTc(k, fps_milli) ELSE WRONG_TC)])
            : c \in [K -> AdrTexts \X BOOLEAN]}
           : K \in SUBSET (0..MaxAdrKey)}

InitReduce ==
    /\ TcOff
    /\ MergeOff
    /\ RunOff
    /\ CallOff
    /\ ScanOff
    /\ video_fps = 24000
    /\ adr_pc = "call"
    /\ text_dict \in TextDictInputs(video_fps)
    /\ new_adr_dict = <<>>

RemoveAllButBorderCasesFoundCall ==
    /\ adr_pc = "call"
    /\ new_adr_dict' = RemoveAllButBorderCasesFound(text_dict, video_fps)
    /\ adr_pc' = "done"
    /\ UNCHANGED <<video_fps, text_dict, tc_vars, merge_vars, run_vars, call_vars,
                   scan_vars>>

NextReduce == RemoveAllButBorderCasesFoundCall

SpecReduce == InitReduce /\ [][NextReduce]_vars

-----------------------------------------------------------------------------
(* What the OCR engine reads.                                              *)

\* read_text_from_image(text_imgs/frame_N.png, "text")[0], by what frame N
\* shows: nothing legible, a VFX note, an ADR cue, two ADR cues.
OcrLines(kind) ==
    CASE kind = "vfx" -> <<<<"v", "f", "x", " ", "1">>>>
      [] kind = "adr" -> <<<<"a", "d", "r", " ", "1">>>>
      [] kind = "adr2" -> <<<<"a", "d", "r", " ", "2">>,
                            <<"a", "d", "r", " ", "1">>>>
      [] OTHER -> <<<<"n", "o">>>>

ReadText(f) == OcrLines(frame_kind[f])

\* read_text_from_image(.., "tc") on a crop of frame N.
ReadTc(f) ==
    CASE tc_mode = "ok" -> <<<<BurnedInTc(f, video_fps)>>>>
      [] tc_mode = "wrong" -> <<<<<<"1">>>>>>
      [] OTHER -> <<<<>>>>

NONE == -1

-----------------------------------------------------------------------------
(* Event extractor: VFX.                                                   *)

\* The inner loop of generate_vfx_text from numbers_to_check[j]: the VFX
\* texts found in the range and the frames whose crop is missing.
RECURSIVE SampleRange(_, _, _, _, _)
SampleRange(frame_range, numbers_to_check, j, texts, not_found) ==
    IF j > Len(numbers_to_check) THEN [texts |-> texts, not_found |-> not_found]
    ELSE LET frame_id == numbers_to_check[j] IN
         IF frame_id < frame_range[1]
         THEN SampleRange(frame_range, numbers_to_check, j + 1, texts,
                          not_found)
         ELSE IF frame_id > frame_range[2] - 1
         THEN [texts |-> texts, not_found |-> not_found]
         ELSE IF ~(frame_id \in text_imgs)
         THEN SampleRange(frame_range, numbers_to_check, j + 1, texts,
                          Append(not_found, frame_id))
         ELSE LET text_in_current_frame ==
                      MatchedLines(ReadText(frame_id), VFX)
              IN  SampleRange(frame_range, numbers_to_check, j + 1,
                      IF text_in_current_frame # <<>>
                      THEN Append(texts,
                               JoinWith(<<" ", "\n">>, text_in_current_frame))
                      ELSE texts,
                      not_found)

\* One iteration of the outer loop of generate_vfx_text.  st holds
\* found_vfx_text, frames_not_found, the processed pictures written and
\* the exception raised.  generate_processed_pictures on a border picture
\* that was never saved: cv2.imread returns None and cv2.cvtColor raises
\* cv2.error, which no except clause of the function catches.
VfxRange(st, frame_range) ==
    LET sampled == SampleRange(frame_range,
                       EvenlySpacedNumsFromRange(frame_range, 8), 1, <<>>,
                       st.not_found)
        st1 == [st EXCEPT !.not_found = sampled.not_found]
        first_frame_of_scene == frame_range[1]
        last_frame_of_scene == frame_range[2] - 1
        first_frame_tc ==
            TcCleanupFromPotentialErrors(ReadTc(first_frame_of_scene),
                                         first_frame_of_scene)
        last_frame_tc ==
            TcCleanupFromPotentialErrors(ReadTc(last_frame_of_scene),
                                         last_frame_of_scene)
        added == ReadTcAddOneFrame(last_frame_tc, video_fps)
        tc_out == IF added.exc = "ValueError" THEN last_frame_tc
                  ELSE added.val
    IN  IF sampled.texts = <<>> THEN st1
        ELSE IF ~(first_frame_of_scene \in border_imgs)
        THEN [st1 EXCEPT !.exc = "cv2.error"]
        ELSE IF ~(last_frame_of_scene \in border_imgs)
        THEN [st1 EXCEPT !.exc = "cv2.error",
                         !.processed = @ \cup {first_frame_of_scene}]
        ELSE [st1 EXCEPT
                 !.processed = @ \cup {first_frame_of_scene,
                                       last_frame_of_scene},
                 !.found =
                     IF DictHas(@, first_frame_of_scene) THEN @
                     ELSE DictSet(@, first_frame_of_scene,
                              Event(ConstructMostCommonWord(sampled.texts),
                                    first_frame_tc, tc_out, frame_range[2]))]

RECURSIVE VfxRangesFrom(_, _, _)
VfxRangesFrom(st, ranges, i) ==
    IF i > Len(ranges) \/ st.exc # "" THEN st
    ELSE VfxRangesFrom(VfxRange(st, ranges[i]), ranges, i + 1)

GenerateVfxText(ranges) ==
    VfxRangesFrom([found |-> <<>>, not_found |-> <<>>, processed |-> {},
                   exc |-> ""], ranges, 1)

-----------------------------------------------------------------------------
(* Event extractor: ADR.                                                   *)

RecordAdrLastWriter(found, f) ==
    LET matched == MatchedLines(ReadText(f), ADR) IN
    IF matched # <<>>
    THEN DictSet(found, f,
             AdrFrame(matched[Len(matched)],
                      TcCleanupFromPotentialErrors(ReadTc(f), f)))
    ELSE found

\* The line loop on frame f: the first ADR line of a frame that has no
\* record yet is stored with the frame's sanitised timecode.
RecordAdr(found, f) ==
    LET matched == MatchedLines(ReadText(f), ADR) IN
    IF matched # <<>> /\ ~DictHas(found, f)
    THEN DictSet(found, f,
             AdrFrame(matched[1], TcCleanupFromPotentialErrors(ReadTc(f), f)))
    ELSE found

Abs(x) == IF x < 0 THEN 0 - x ELSE x

\* The for loop of check_previous_or_next_frames from sliced_list[j];
\* curr is the loop variable's last value (NONE while unbound).
RECURSIVE WalkFrames(_, _, _, _, _, _)
WalkFrames(sliced_list, j, boundry, last_frame, found, curr) ==
    IF j > Len(sliced_list) THEN [found |-> found, curr |-> curr]
    ELSE LET curr_frame == sliced_list[j] IN
         IF last_frame # NONE /\ Abs(curr_frame - last_frame) > 1
         THEN [found |-> found, curr |-> curr_frame]
         ELSE IF boundry THEN [found |-> found, curr |-> curr_frame]
         ELSE WalkFrames(sliced_list, j + 1,
                  MatchedLines(ReadText(curr_frame), ADR) = <<>>,
                  curr_frame, RecordAdr(found, curr_frame), curr_frame)

Reverse(list) == [i \in 1..Len(list) |-> list[Len(list) - i + 1]]

\* frames_to_check[index - 1 :: -1]: index counts from 0, and a start of
\* -1 is the last element of the list.
SlicePrevious(frames_to_check, index) ==
    IF index = 0 THEN Reverse(frames_to_check)
    ELSE [i \in 1..index |-> frames_to_check[index - i + 1]]

SliceNextOffByOne(frames_to_check, index) ==
    SubSeq(frames_to_check, index + 3, Len(frames_to_check))

\* frames_to_check[index + 1 :]
SliceNext(frames_to_check, index) ==
    SubSeq(frames_to_check, index + 2, Len(frames_to_check))

SlicedList(frames_to_check, index, mode) ==
    IF mode = "previous" THEN SlicePrevious(frames_to_check, index)
    ELSE SliceNext(frames_to_check, index)

\* The return of check_previous_or_next_frames after the loop: new_index
\* reads curr_frame, which is unbound when sliced_list is empty.
ReturnWalked(frames_to_check, walked, mode) ==
    IF mode = "next"
    THEN IF walked.curr = NONE
         THEN [exc |-> "UnboundLocalError", found |-> walked.found,
               new_index |-> NONE]
         ELSE [exc |-> "", found |-> walked.found,
               new_index |-> IndexOf(frames_to_check, walked.curr) - 1]
    ELSE [exc |-> "", found |-> walked.found, new_index |-> NONE]

CheckPreviousOrNextFrames(frames_to_check, frame, found, mode) ==
    ReturnWalked(frames_to_check,
        WalkFrames(SlicedList(frames_to_check,
                              IndexOf(frames_to_check, frame) - 1, mode),
                   1, FALSE, NONE, found, NONE),
        mode)

\* The while loop of generate_adr_text from index i (counted from 0);
\* AdrScanAfter resumes it with the result of the "next" expansion.
RECURSIVE AdrScanFrom(_, _, _)
RECURSIVE AdrScanAfter(_, _)
AdrScanAfter(frames_to_check, next_frames) ==
    IF next_frames.exc # "" THEN Raise(next_frames.exc)
    ELSE AdrScanFrom(frames_to_check, next_frames.new_index + Stride,
                     next_frames.found)

AdrScanFrom(frames_to_check, i, found) ==
    IF i >= Len(frames_to_check) THEN [exc |-> "", val |-> found]
    ELSE IF /\ MatchedLines(ReadText(frames_to_check[i + 1]), ADR) # <<>>
            /\ ~DictHas(found, frames_to_check[i + 1])
    THEN AdrScanAfter(frames_to_check,
             CheckPreviousOrNextFrames(frames_to_check,
                 frames_to_check[i + 1],
                 CheckPreviousOrNextFrames(frames_to_check,
                     frames_to_check[i + 1],
                     RecordAdr(found, frames_to_check[i + 1]),
                     "previous").found,
                 "next"))
    ELSE AdrScanFrom(frames_to_check, i + Stride, found)

\* sorted_dict and its reduction, unless the scan raised.
ReduceScanned(scanned) ==
    IF scanned.exc # "" THEN scanned
    ELSE Ok(RemoveAllButBorderCasesFound(SortByKey(scanned.val), video_fps))

GenerateAdrText(frames_to_check) ==
    ReduceScanned(AdrScanFrom(frames_to_check, 0, <<>>))

-----------------------------------------------------------------------------
(* Real timestamps.                                                        *)

AddRealTimestampsOutFromKey(frames_dict) ==
    IF \E i \in 1..Len(frames_dict) :
           ~("FRAME OUT" \in DOMAIN frames_dict[i][2])
    THEN Raise("KeyError")
    ELSE Ok([i \in 1..Len(frames_dict) |->
                <<frames_dict[i][1],
                  ("REAL TC IN" :>
                       ConvertCurrentFrameToTc(frames_dict[i][1], video_fps))
                    @@ ("REAL TC OUT" :>
                       ConvertCurrentFrameToTc(frames_dict[i][1], video_fps))
                    @@ frames_dict[i][2]>>])

\* The loop of add_real_timestamps; frames_dict[k]["FRAME OUT"] raises
\* KeyError on a record without that field.
AddRealTimestamps(frames_dict) ==
    IF \E i \in 1..Len(frames_dict) :
           ~("FRAME OUT" \in DOMAIN frames_dict[i][2])
    THEN Raise("KeyError")
    ELSE Ok([i \in 1..Len(frames_dict) |->
                <<frames_dict[i][1],
                  ("REAL TC IN" :>
                       ConvertCurrentFrameToTc(frames_dict[i][1], video_fps))
                    @@ ("REAL TC OUT" :>
                       ConvertCurrentFrameToTc(
                           frames_dict[i][2]["FRAME OUT"], video_fps))
                    @@ frames_dict[i][2]>>])

-----------------------------------------------------------------------------
(* Merge harness: merge_dicts on two event maps in any key order.          *)

VfxText(k) == <<"V", "F", "X", " ">> \o IntToStr(k)

AdrText(k) == <<"A", "D", "R", " ">> \o IntToStr(k)

VfxEventAt(k) ==
    Event(VfxText(k), BurnedInTc(k, 24000), BurnedInTc(k + 2, 24000), k + 2)

AdrEventAt(k) ==
    Event(AdrText(k), BurnedInTc(k, 24000), BurnedInTc(k + 1, 24000), k + 1)

\* The sequences of distinct keys.
KeyOrders(S) ==
    {q \in UNION {[1..n -> S] : n \in 0..Cardinality(S)} :
        \A i, j \in 1..Len(q) : i # j => q[i] # q[j]}

InitMerge ==
    /\ TcOff
    /\ AdrOff
    /\ RunOff
    /\ CallOff
    /\ ScanOff
    /\ video_fps = 24000
    /\ merge_pc = "call"
    /\ \E q \in KeyOrders(1..MaxMergeKey) :
           dict_a = [i \in 1..Len(q) |-> <<q[i], VfxEventAt(q[i])>>]
    /\ \E q \in KeyOrders(1..MaxMergeKey) :
           dict_b = [i \in 1..Len(q) |-> <<q[i], AdrEventAt(q[i])>>]
    /\ merge_ret = Ok(<<>>)

MergeDictsCall ==
    /\ merge_pc = "call"
    /\ merge_ret' = MergeDicts(dict_a, dict_b)
    /\ merge_pc' = "done"
    /\ UNCHANGED <<video_fps, dict_a, dict_b, tc_vars, adr_vars, run_vars,
                   call_vars, scan_vars>>

NextMerge == MergeDictsCall

SpecMerge == InitMerge /\ [][NextMerge]_vars

-----------------------------------------------------------------------------
(* The pipeline run of main().                                             *)

Kinds == {"blank", "noise", "vfx", "adr"}

Frames == 0..(VideoLength - 1)

\* The scenes cut at the frames of C: consecutive [start, end) pairs that
\* cover the video.
RECURSIVE ScenesFrom(_, _)
ScenesFrom(start, C) ==
    IF C = {} THEN <<<<start, VideoLength>>>>
    ELSE LET c == CHOOSE x \in C : \A y \in C : x <= y
         IN  <<<<start, c>>>> \o ScenesFrom(c, C \ {c})

SceneLists == {ScenesFrom(0, C) : C \in SUBSET (1..(VideoLength - 1))}

RECURSIVE FlaggedFromLastFirst(_, _)
FlaggedFromLastFirst(lo, hi) ==
    IF lo > hi THEN <<>>
    ELSE IF frame_kind[lo] # "blank"
         THEN FlaggedFromLastFirst(lo + 1, hi) \o <<lo>>
    ELSE FlaggedFromLastFirst(lo + 1, hi)

\* The frames of lo..hi with at least 2000 dark pixels in the text area, in
\* increasing order.
RECURSIVE FlaggedFrom(_, _)
FlaggedFrom(lo, hi) ==
    IF lo > hi THEN <<>>
    ELSE IF frame_kind[lo] # "blank" THEN <<lo>> \o FlaggedFrom(lo + 1, hi)
    ELSE FlaggedFrom(lo + 1, hi)

Init ==
    /\ TcOff
    /\ AdrOff
    /\ MergeOff
    /\ CallOff
    /\ ScanOff
    /\ video_fps = 24000
    /\ pc = "scan"
    /\ error = NoError
    /\ cap_released = 0
    /\ start_frame \in Frames
    /\ FilesEmpty
    /\ ResultsEmpty
    /\ \/ /\ cap_opened = TRUE
          /\ readable_frames \in {VideoLength - 1, VideoLength}
          /\ frame_kind \in [Frames -> Kinds]
          /\ tc_mode \in {"ok", "wrong", "empty"}
          /\ scene_list \in SceneLists
       \/ /\ cap_opened = FALSE
          /\ readable_frames = 0
          /\ frame_kind = [f \in Frames |-> "blank"]
          /\ tc_mode = "empty"
          /\ scene_list = <<>>

Fail(stage, exc) ==
    /\ pc' = (IF exc = "SystemExit" THEN "exited" ELSE "crashed")
    /\ error' = [stage |-> stage, exc |-> exc]

\* generate_imgs_with_text_from_video: a closed handle ends the run through
\* delete_temp_folder_on_error_and_exit (sys.exit); otherwise the frames
\* from start_frame on are read until a read fails, and those with at
\* least 2000 dark pixels in the text area are saved and listed.
GenerateImgsWithTextFromVideo ==
    /\ pc = "scan"
    /\ IF ~cap_opened
       THEN /\ Fail("generate_imgs_with_text_from_video", "SystemExit")
            /\ UNCHANGED <<file_vars, result_vars>>
       ELSE LET flagged == FlaggedFrom(start_frame, readable_frames - 1) IN
            /\ frames_with_embedded_text_id' = flagged
            /\ text_imgs' = {flagged[i] : i \in 1..Len(flagged)}
            /\ tc_imgs' = {flagged[i] : i \in 1..Len(flagged)}
            /\ pc' = "detect_scenes"
            /\ UNCHANGED <<error, thumbnails, border_imgs, processed_imgs,
                           frames_ranges_with_potential_text, found_vfx_text,
                           frames_not_found, found_adr_text, merged_text_dict,
                           final_text_dict>>
    /\ UNCHANGED <<video_fps, harness_vars, cap_released,
                   input_vars>>

\* detect_all_scenes(video): the scene detector opens the video on its own
\* and either returns the scene list or fails.
DetectAllScenes ==
    /\ pc = "detect_scenes"
    /\ \/ pc' = "check_scenes" /\ UNCHANGED error
       \/ Fail("detect_all_scenes", "Exception")
    /\ UNCHANGED <<video_fps, harness_vars, cap_released,
                   input_vars, file_vars, result_vars>>

CheckIfScenesCanContainTextCall ==
    /\ pc = "check_scenes"
    /\ frames_ranges_with_potential_text' =
           CheckIfScenesCanContainText(scene_list,
               frames_with_embedded_text_id, start_frame)
    /\ pc' = "pictures"
    /\ UNCHANGED <<video_fps, harness_vars, cap_released,
                   error, input_vars, file_vars,
                   frames_with_embedded_text_id, found_vfx_text,
                   frames_not_found, found_adr_text, merged_text_dict,
                   final_text_dict>>

\* cap.set(CAP_PROP_POS_FRAMES, n); cap.read()
FoundFrame(n) == 0 <= n /\ n < readable_frames

\* generate_pictures_for_each_scene: the first frame read of a range also
\* gets a thumbnail.
GeneratePicturesForEachScene ==
    /\ pc = "pictures"
    /\ LET ranges == frames_ranges_with_potential_text
           R == 1..Len(ranges)
       IN  /\ border_imgs' =
                  {n \in {ranges[i][1] : i \in R}
                            \cup {ranges[i][2] - 1 : i \in R} : FoundFrame(n)}
           /\ thumbnails' =
                  {ranges[i][1] : i \in {j \in R : FoundFrame(ranges[j][1])}}
                    \cup {ranges[i][2] - 1 :
                             i \in {j \in R : /\ ~FoundFrame(ranges[j][1])
                                               /\ FoundFrame(ranges[j][2] - 1)}}
    /\ pc' = "vfx"
    /\ UNCHANGED <<video_fps, harness_vars, cap_released,
                   error, input_vars, text_imgs, tc_imgs, processed_imgs,
                   result_vars>>

VfxReturn(r) ==
    /\ processed_imgs' = r.processed
    /\ IF r.exc # ""
       THEN /\ Fail("generate_vfx_text", r.exc)
            /\ UNCHANGED <<found_vfx_text, frames_not_found>>
       ELSE /\ found_vfx_text' = r.found
            /\ frames_not_found' = r.not_found
            /\ pc' = "adr"
            /\ UNCHANGED error

GenerateVfxTextCall ==
    /\ pc = "vfx"
    /\ VfxReturn(GenerateVfxText(frames_ranges_with_potential_text))
    /\ UNCHANGED <<video_fps, harness_vars, cap_released,
                   input_vars, text_imgs, tc_imgs, thumbnails, border_imgs,
                   frames_with_embedded_text_id,
                   frames_ranges_with_potential_text, found_adr_text,
                   merged_text_dict, final_text_dict>>

\* A stage's return to main: its value is stored, or its exception ends
\* the run.
AdrReturn(r) ==
    IF r.exc # ""
    THEN Fail("generate_adr_text", r.exc) /\ UNCHANGED found_adr_text
    ELSE found_adr_text' = r.val /\ pc' = "merge" /\ UNCHANGED error

GenerateAdrTextCall ==
    /\ pc = "adr"
    /\ AdrReturn(GenerateAdrText(frames_with_embedded_text_id))
    /\ UNCHANGED <<video_fps, harness_vars, cap_released,
                   input_vars, file_vars, frames_with_embedded_text_id,
                   frames_ranges_with_potential_text, found_vfx_text,
                   frames_not_found, merged_text_dict, final_text_dict>>

MergeDictsStep ==
    /\ pc = "merge"
    /\ LET r == MergeDicts(found_vfx_text, found_adr_text) IN
       IF r.exc # ""
       THEN Fail("merge_dicts", r.exc) /\ UNCHANGED merged_text_dict
       ELSE merged_text_dict' = r.val /\ pc' = "timestamps"
            /\ UNCHANGED error
    /\ UNCHANGED <<video_fps, harness_vars, cap_released,
                   input_vars, file_vars, frames_with_embedded_text_id,
                   frames_ranges_with_potential_text, found_vfx_text,
                   frames_not_found, found_adr_text, final_text_dict>>

\* add_real_timestamps, which ends with close_cap(): cap.release().
AddRealTimestampsCall ==
    /\ pc = "timestamps"
    /\ LET r == AddRealTimestamps(merged_text_dict) IN
       IF r.exc # ""
       THEN /\ Fail("add_real_timestamps", r.exc)
            /\ UNCHANGED <<final_text_dict, cap_released>>
       ELSE /\ final_text_dict' = r.val
            /\ cap_released' = cap_released + 1
            /\ pc' = "report"
            /\ UNCHANGED error
    /\ UNCHANGED <<video_fps, harness_vars, input_vars,
                   file_vars, frames_with_embedded_text_id,
                   frames_ranges_with_potential_text, found_vfx_text,
                   frames_not_found, found_adr_text, merged_text_dict>>

\* create_dataframe, create_xlsx_file, delete_folder(temp), sys.exit().
WriteReportAndExit ==
    /\ pc = "report"
    /\ text_imgs' = {}
    /\ tc_imgs' = {}
    /\ thumbnails' = {}
    /\ border_imgs' = {}
    /\ processed_imgs' = {}
    /\ pc' = "done"
    /\ UNCHANGED <<video_fps, harness_vars, cap_released,
                   error, input_vars, result_vars>>

Next ==
    \/ GenerateImgsWithTextFromVideo
    \/ DetectAllScenes
    \/ CheckIfScenesCanContainTextCall
    \/ GeneratePicturesForEachScene
    \/ GenerateVfxTextCall
    \/ GenerateAdrTextCall
    \/ MergeDictsStep
    \/ AddRealTimestampsCall
    \/ WriteReportAndExit

Spec == Init /\ [][Next]_vars

-----------------------------------------------------------------------------
(* Claims about the ADR reduction, checked under SpecReduce.               *)

C1_Keys == DictKeySet(text_dict)

\* The first frames of the maximal runs of consecutive keys.
C1_RunStarts == {k \in C1_Keys : ~((k - 1) \in C1_Keys)}

\* The last frame of the maximal run that starts at k.
C1_RunEnd(k) ==
    CHOOSE j \in C1_Keys :
        /\ j >= k
        /\ \A i \in k..j : i \in C1_Keys
        /\ ~((j + 1) \in C1_Keys)

C1_RunTexts(k) ==
    [i \in 1..(C1_RunEnd(k) - k + 1) |->
         DictGet(text_dict, k + i - 1)["TEXT"]]

\* C1: for an ADR map with ascending keys the reduction holds exactly one
\* event per maximal run of consecutive frame numbers, keyed by the run's
\* first frame, with TEXT the consensus of the run's TEXT values, TC IN the
\* first frame's TC, TC OUT the last frame's TC advanced by one frame and
\* FRAME OUT the last frame + 1; an empty map gives an empty result.
C1_OneEventPerRun ==
    adr_pc = "done" =>
        /\ Len(new_adr_dict) = Cardinality(C1_RunStarts)
        /\ DictKeySet(new_adr_dict) = C1_RunStarts
        /\ \A k \in C1_RunStarts :
               DictGet(new_adr_dict, k) =
                   Event(ConstructMostCommonWord(C1_RunTexts(k)),
                         DictGet(text_dict, k)["TC"],
                         ReadTcAddOneFrame(
                             DictGet(text_dict, C1_RunEnd(k))["TC"],
                             video_fps).val,
                         C1_RunEnd(k) + 1)

C1_Witness ==
    /\ adr_pc = "done"
    /\ DictKeys(text_dict) = <<0, 1, 3, 4>>
    /\ DictKeys(new_adr_dict) = <<0, 3>>
    /\ DictGet(new_adr_dict, 0)["FRAME OUT"] = 2
    /\ DictGet(new_adr_dict, 3)["FRAME OUT"] = 5
    /\ DictGet(new_adr_dict, 0)["TC IN"] = BurnedInTc(0, video_fps)
    /\ DictGet(new_adr_dict, 0)["TC OUT"] = BurnedInTc(2, video_fps)
    /\ DictGet(new_adr_dict, 3)["TC OUT"] =
           <<"0", "0", ":", "0", "0", ":", "0", "1", ":", "0", "2">>

-----------------------------------------------------------------------------
(* Claims about the timeline merger, checked under SpecMerge.              *)

C2_Overlap == DictKeySet(dict_a) \cap DictKeySet(dict_b)

\* C2: when a frame number is a key of both maps, the merge completes
\* without error and the merged record of that key preserves both sides'
\* TEXT and both sides' TC OUT.
C2_OverlapPreserved ==
    (merge_pc = "done" /\ C2_Overlap # {}) =>
        /\ merge_ret.exc = ""
        /\ \A k \in C2_Overlap :
               LET rec == DictGet(merge_ret.val, k)
                   ea == DictGet(dict_a, k)
                   eb == DictGet(dict_b, k)
               IN  /\ \E f \in DOMAIN rec :
                          rec[f] = <<ea["TEXT"], eb["TEXT"]>>
                   /\ \E f \in DOMAIN rec :
                          rec[f] = <<ea["TC OUT"], eb["TC OUT"]>>

\* C3: on disjoint key sets the result's keys are the union of the inputs'
\* keys, every event is passed through with all fields unchanged, the keys
\* iterate in strictly increasing order whatever the inputs' order, and
\* merging (a, b) equals merging (b, a), iteration order included.
C3_DisjointMerge ==
    (merge_pc = "done" /\ C2_Overlap = {}) =>
        /\ merge_ret.exc = ""
        /\ DictKeySet(merge_ret.val) = DictKeySet(dict_a) \cup DictKeySet(dict_b)
        /\ Len(merge_ret.val) = Len(dict_a) + Len(dict_b)
        /\ \A i \in 1..Len(dict_a) :
               DictGet(merge_ret.val, dict_a[i][1]) = dict_a[i][2]
        /\ \A i \in 1..Len(dict_b) :
               DictGet(merge_ret.val, dict_b[i][1]) = dict_b[i][2]
        /\ \A i \in 1..(Len(merge_ret.val) - 1) :
               merge_ret.val[i][1] < merge_ret.val[i + 1][1]
        /\ merge_ret = MergeDicts(dict_b, dict_a)

C3_Witness ==
    /\ merge_pc = "done"
    /\ DictKeys(dict_a) = <<3, 1>>
    /\ DictKeys(dict_b) = <<2>>
    /\ merge_ret.exc = ""
    /\ merge_ret.val =
           <<<<1, VfxEventAt(1)>>, <<2, AdrEventAt(2)>>, <<3, VfxEventAt(3)>>>>

-----------------------------------------------------------------------------
(* Claims about the timecode utility, checked under SpecTc.                *)

\* C7: for every integer frame rate fps >= 1 and every frame number f >= 0,
\* advancing the timecode of frame f by one frame gives the timecode of
\* frame f + 1, rollovers of frames, seconds, minutes and hours included.
C7_SuccessorCommutes ==
    (tc_pc = "added" /\ frame_number >= 0 /\ video_fps % 1000 = 0)
        => tc_ret = Ok(ConvertCurrentFrameToTc(frame_number + 1, video_fps))

C7_Witness ==
    /\ tc_pc = "added"
    /\ video_fps = 24000
    /\ frame_number = 24 * 60 * 60 - 1
    /\ time_str = <<"0", "0", ":", "5", "9", ":", "5", "9", ":", "2", "3">>
    /\ tc_ret = Ok(<<"0", "1", ":", "0", "0", ":", "0", "0", ":", "0", "0">>)

\* The fields of a canonical HH:MM:SS:FF string.
TcFields(s) == LET p == Split(s) IN [i \in 1..4 |-> ParseInt(p[i])]

IsCanonicalTc(s, fps_milli) ==
    /\ ~(s \in {WRONG_TC, EMPTY_TC})
    /\ Len(Split(s)) = 4
    /\ \A i \in 1..4 : IsIntLiteral(Split(s)[i])
    /\ TcFields(s)[2] < 60
    /\ TcFields(s)[3] < 60
    /\ TcFields(s)[4] * 1000 < fps_milli

\* One frame later, FF wrapping at the frame rate, SS and MM at 60.
C8_Expected(s, fps_milli) ==
    LET t == TcFields(s)
        wrapF == (t[4] + 1) * 1000 >= fps_milli
        s1 == IF wrapF THEN t[3] + 1 ELSE t[3]
        m1 == IF s1 = 60 THEN t[2] + 1 ELSE t[2]
    IN  FormatTc(IF m1 = 60 THEN t[1] + 1 ELSE t[1], m1 % 60, s1 % 60,
                 IF wrapF THEN 0 ELSE t[4] + 1)

\* C8: for every frame rate the handle can report, fractional ones included,
\* a canonical input (SS < 60, MM < 60, FF < fps) gives an output with FF in
\* [0, fps), SS and MM in [0, 60): FF rolls to 00 with a carry at the frame
\* rate, SS and MM carry at 60.
C8_WrapsAtFrameRate ==
    (tc_pc = "added" /\ IsCanonicalTc(time_str, video_fps))
        => /\ tc_ret.exc = ""
           /\ IsCanonicalTc(tc_ret.val, video_fps)
           /\ tc_ret.val = C8_Expected(time_str, video_fps)

\* C9: the sentinels WRONG TC and EMPTY TC are returned unchanged and
\* nothing is raised.
C9_SentinelPassThrough ==
    (tc_pc = "added" /\ time_str \in {WRONG_TC, EMPTY_TC})
        => (tc_ret.exc = "" /\ tc_ret.val = time_str)

C9_Witness ==
    /\ tc_pc = "added"
    /\ tc_text = <<<<>>>>
    /\ time_str = EMPTY_TC
    /\ tc_ret = Ok(EMPTY_TC)

\* The number of digits that immediately precede position i of s.
RECURSIVE DigitsBefore(_, _)
DigitsBefore(s, i) ==
    IF i > 1 /\ IsDigit(s[i - 1]) THEN 1 + DigitsBefore(s, i - 1) ELSE 0

\* Where the non-overlapping two-digit runs of s start: at an even offset
\* into a maximal run of digits, with a digit following.
TwoDigitStarts(s) ==
    {i \in 1..Len(s) :
        /\ i + 1 <= Len(s)
        /\ IsDigit(s[i]) /\ IsDigit(s[i + 1])
        /\ DigitsBefore(s, i) % 2 = 0}

\* The k-th smallest element of a finite set of integers.
KthSmallest(S, k) == CHOOSE x \in S : Cardinality({y \in S : y < x}) = k - 1

C10_Expected(ocr) ==
    IF ocr = <<>> \/ ocr[1] = <<>> THEN EMPTY_TC
    ELSE LET s == Join(ocr[1])
             P == TwoDigitStarts(s)
             D(k) == LET i == KthSmallest(P, k) IN <<s[i], s[i + 1]>>
         IN  IF Cardinality(P) < 4 THEN WRONG_TC
             ELSE D(1) \o <<":">> \o D(2) \o <<":">> \o D(3) \o <<":">> \o D(4)

\* C10: the sanitiser returns EMPTY TC iff the OCR result is empty or its
\* first element is empty; otherwise, with D the non-overlapping two-digit
\* runs of the concatenated text from left to right, WRONG TC iff D has
\* fewer than four elements and D[0]:D[1]:D[2]:D[3] otherwise.
C10_CleanupResult ==
    (tc_pc \in {"str", "added"} /\ tc_text # NoTcText)
        => /\ time_str = C10_Expected(tc_text)
           /\ (time_str = EMPTY_TC) <=> (tc_text = <<>> \/ tc_text[1] = <<>>)

C10_Witness ==
    /\ tc_pc = "str"
    /\ tc_text = <<<<<<"1", "2", "3", "1", ":", "2", "3", "2", "3">>>>>>
    /\ time_str = <<"1", "2", ":", "3", "1", ":", "2", "3", ":", "2", "3">>

-----------------------------------------------------------------------------
(* Claims about a pipeline run.                                            *)

Terminal == {"done", "crashed", "exited"}

FrameOutAfterKey(d) ==
    \A i \in 1..Len(d) :
        "FRAME OUT" \in DOMAIN d[i][2] /\ d[i][2]["FRAME OUT"] > d[i][1]

\* C4: in every event of the VFX map, of the ADR map, of the merged
\* timeline and of the annotated timeline, FRAME OUT is strictly greater
\* than the event's key.
C4_FrameOutAfterFrameIn ==
    /\ FrameOutAfterKey(found_vfx_text)
    /\ FrameOutAfterKey(found_adr_text)
    /\ FrameOutAfterKey(merged_text_dict)
    /\ FrameOutAfterKey(final_text_dict)

\* A finished run whose timeline holds a VFX event and an ADR event.
C4_Witness ==
    /\ pc = "done"
    /\ found_vfx_text # <<>>
    /\ found_adr_text # <<>>
    /\ Len(final_text_dict) = Len(found_vfx_text) + Len(found_adr_text)
    /\ \E i \in 1..Len(final_text_dict) :
           final_text_dict[i][2]["FRAME OUT"] = final_text_dict[i][1] + 1

\* C5: the video handle is released exactly once on every exit path of a
\* run: a run that has ended, normally or with an error, has released it
\* once; it is never released twice, and never before the timestamp
\* annotation, the last stage that uses it.
C5_ReleasedOnEveryExit ==
    /\ pc \in Terminal => cap_released = 1
    /\ cap_released <= 1
    /\ cap_released = 1 => pc \in {"report", "done"}

\* The sampled frames of a range that generate_vfx_text tries to read.
SampledIn(frame_range) ==
    LET numbers_to_check == EvenlySpacedNumsFromRange(frame_range, 8)
    IN  {n \in {numbers_to_check[j] : j \in 1..8} :
            frame_range[1] <= n /\ n <= frame_range[2] - 1}

\* C6: generate_vfx_text never aborts because an image file is missing:
\* it returns a VFX map, and every sampled frame whose text crop is
\* missing is in frames_not_found.
C6_NeverAbortsOnMissingImage ==
    /\ error.stage # "generate_vfx_text"
    /\ pc \in {"adr", "merge", "timestamps", "report"} =>
           \A i \in 1..Len(frames_ranges_with_potential_text) :
               \A n \in SampledIn(frames_ranges_with_potential_text[i]) :
                   n \in text_imgs \/ InList(frames_not_found, n)

-----------------------------------------------------------------------------
(* match_text on one line.                                                 *)

\* The cases of test_match_text: the line, and the result expected for
\* beginning_chars="VFX".
TestMatchText == {
      <<<<"V", "F", "X", ":", " ", "1", "2", "3", "f", "s", "d", "f",
          "r">>,
        <<"V", "F", "X", ":", " ", "1", "2", "3", "f", "s", "d", "f",
          "r">>>>
    , <<<<"v", "f", "X", ":", " ", "a", "b", "c", "D", "E">>,
        <<"V", "F", "X", ":", " ", "a", "b", "c", "D", "E">>>>
    , <<<<>>,
        <<>>>>
    , <<<<"v", "f", "X", ":", " ", "f", "i", "r", "s", "t", " ", "V", "F",
          "X", ":", " ", "s", "e", "c", "o", "n", "d">>,
        <<"V", "F", "X", ":", " ", "f", "i", "r", "s", "t", " ", "V", "F",
          "X", ":", " ", "s", "e", "c", "o", "n", "d">>>>
    , <<<<"A", "D", "R", ":", " ", "1", "2", "3">>,
        <<>>>>
    , <<<<"V", "F", " ", "X", ":", " ", "1", "2", "3">>,
        <<>>>>
    , <<<<"f", "a", "3", "5", "4", "2", "d", " ", "v", "F", "x", " ", "f",
          "4", "3", "2">>,
        <<"V", "F", "X", " ", "f", "4", "3", "2">>>>
    }

MatchPieces ==
    {<<"v", "F", "x">>, <<"V", "F", "X">>, <<"A", "D", "R">>, <<"V", "F">>,
     <<" ">>, <<"1">>, <<"f">>}

MatchLines ==
    {Join(ts) : ts \in UNION {[1..k -> MatchPieces] : k \in 0..MaxMatchPieces}}
        \cup {t[1] : t \in TestMatchText}

InitMatch ==
    /\ TcOff
    /\ AdrOff
    /\ MergeOff
    /\ RunOff
    /\ ScanOff
    /\ video_fps = 24000
    /\ call_pc = "match_text"
    /\ call_args \in {<<line, token>> : line \in MatchLines,
                                        token \in {VFX, ADR}}
    /\ call_ret = <<>>

MatchTextCall ==
    /\ call_pc = "match_text"
    /\ call_ret' = MatchText(call_args[1], call_args[2])
    /\ call_pc' = "match_text.return"
    /\ UNCHANGED <<video_fps, call_args, tc_vars, adr_vars, merge_vars,
                   scan_vars, run_vars>>

NextMatch == MatchTextCall

SpecMatch == InitMatch /\ [][NextMatch]_vars

\* The lower-case form of a letter of a token.
LowerOfTokenLetter(c) ==
    CASE c = "V" -> "v" [] c = "F" -> "f" [] c = "X" -> "x"
      [] c = "A" -> "a" [] c = "D" -> "d" [] c = "R" -> "r"

\* The positions of line where the token occurs, in any case, followed by
\* at least one further character.
C11_Occurrences(line, token) ==
    {p \in 1..Len(line) :
        /\ p + 3 <= Len(line)
        /\ \A k \in 1..3 :
               line[p + k - 1] \in {token[k], LowerOfTokenLetter(token[k])}}

\* C11: match_text returns the line from the first occurrence of the
\* token (any case, followed by at least one character) to its end, the
\* token upper-cased and the rest as it was; without such an occurrence it
\* returns the empty string; and the cases of test_match_text give the
\* results the test expects.
C11_MatchResult ==
    call_pc = "match_text.return" =>
        LET line == call_args[1]
            token == call_args[2]
            Q == C11_Occurrences(line, token)
        IN  /\ Q = {} => call_ret = <<>>
            /\ Q # {} =>
                   \E p \in Q :
                       /\ \A q \in Q : p <= q
                       /\ Len(call_ret) = Len(line) - p + 1
                       /\ \A k \in 1..Len(call_ret) :
                              call_ret[k] = IF k <= 3 THEN token[k]
                                            ELSE line[p + k - 1]
            /\ token = VFX =>
                   \A t \in TestMatchText : line = t[1] => call_ret = t[2]

\* 'fa3542d vFx f432' gives 'VFX f432': the token is not at the start.
C11_Witness ==
    /\ call_pc = "match_text.return"
    /\ call_args[2] = VFX
    /\ Len(call_args[1]) = 16
    /\ call_args[1][1] = "f"
    /\ call_ret = <<"V", "F", "X", " ", "f", "4", "3", "2">>

-----------------------------------------------------------------------------
(* construct_most_common_word on a list of strings.                        *)

\* test_list of test_construct_most_common_word.
TestMostCommonWord == <<
    <<"A", "D", "R", " ", " ", "E", "x", "e", "m", "p", "l", "e">>,
    <<"A", "D", "R", ":", " ", "E", "x", "a", "m", "p", "l", "e">>,
    <<"A", "D", "R", ":", " ", "E", "x", "a", "m", "p", "l", "e">>,
    <<"A", "D", "R", ":", " ", "h", "5", "2", "3", "4", "r", "1", "s",
      "3", "4">>,
    <<"A", "D", "R", ":", " ", "E", "x", "a", "m", "p", "l", "e">>,
    <<"A", "D", "R", ":", " ", "E", "x", "a", "m", "p", "!", "?">>,
    <<"A", "D", "R", ":", " ", "E", "x", "a", "m", "o", "l", "e">>,
    <<"A", "D", "R", ":", " ", "E", "x", "a", "m", "p", "l", "e", "h",
      "d", "f", "g", "h", "d">>,
    <<"A", "D", "R", ":", " ", "E", "x", "a", "m", "p", "l", "e">>,
    <<"A", "D", "R", ":", " ", "E", "X", "a", "m", "p", "l", "e">>,
    <<"A", "D", "R", ":", " ", "E", "x", "a", "m", "p", "l", "e", "6",
      "3", "4", "5", "7", "3">>
    >>

ADR_Example == <<"A", "D", "R", ":", " ", "E", "x", "a", "m", "p", "l", "e">>

ConsensusChars == {"a", "b", " "}

ConsensusWords ==
    UNION {[1..n -> ConsensusChars] : n \in 0..MaxWordLen}

ConsensusLists ==
    UNION {[1..n -> ConsensusWords] : n \in 1..MaxWords}
        \cup {TestMostCommonWord}

InitConsensus ==
    /\ TcOff
    /\ AdrOff
    /\ MergeOff
    /\ RunOff
    /\ ScanOff
    /\ video_fps = 24000
    /\ call_pc = "construct_most_common_word"
    /\ call_args \in ConsensusLists
    /\ call_ret = <<>>

ConstructMostCommonWordCall ==
    /\ call_pc = "construct_most_common_word"
    /\ call_ret' = ConstructMostCommonWord(call_args)
    /\ call_pc' = "construct_most_common_word.return"
    /\ UNCHANGED <<video_fps, call_args, tc_vars, adr_vars, merge_vars,
                   scan_vars, run_vars>>

NextConsensus == ConstructMostCommonWordCall

SpecConsensus == InitConsensus /\ [][NextConsensus]_vars

\* Column i of the padded inputs, its counts and first appearances.
C12_Col(i, j) ==
    IF i <= Len(call_args[j]) THEN call_args[j][i] ELSE " "

C12_Count(i, c) ==
    Cardinality({j \in 1..Len(call_args) : C12_Col(i, j) = c})

C12_First(i, c) ==
    CHOOSE j \in 1..Len(call_args) :
        C12_Col(i, j) = c /\ \A k \in 1..(j - 1) : C12_Col(i, k) # c

\* c has the highest count of column i, and among the characters with
\* that count it is the one that appears first.
C12_Wins(i, c) ==
    /\ C12_Count(i, c) > 0
    /\ \A j \in 1..Len(call_args) :
           LET d == C12_Col(i, j) IN
           \/ C12_Count(i, d) < C12_Count(i, c)
           \/ C12_Count(i, d) = C12_Count(i, c)
                 /\ C12_First(i, c) <= C12_First(i, d)

\* C12: the result of construct_most_common_word is, column by column,
\* the character that wins the column of the space-padded inputs (highest
\* count, ties to the first seen), with the trailing spaces removed; it is
\* no longer than the longest input; and test_list gives 'ADR: Example'.
C12_Consensus ==
    call_pc = "construct_most_common_word.return" =>
        LET n == MaxLen(call_args) IN
        /\ Len(call_ret) <= n
        /\ \A i \in 1..Len(call_ret) : C12_Wins(i, call_ret[i])
        /\ \A i \in (Len(call_ret) + 1)..n : C12_Wins(i, " ")
        /\ call_ret # <<>> => call_ret[Len(call_ret)] # " "
        /\ call_args = TestMostCommonWord => call_ret = ADR_Example

\* A tie in the first column won by the first input, and a second column
\* that exists only through padding.
C12_Witness ==
    /\ call_pc = "construct_most_common_word.return"
    /\ call_args = <<<<"b">>, <<"a", " ">>>>
    /\ call_ret = <<"b">>

-----------------------------------------------------------------------------
(* update_start_frame on a list of ranges.                                 *)

\* test_update_start_frame: start_frame, test_input and expected.
TestStartFrame == 150

TestRanges ==
    <<<<0, 100>>, <<100, 200>>, <<200, 300>>, <<300, 400>>, <<400, 500>>>>

TestUpdatedRanges ==
    <<<<150, 200>>, <<200, 300>>, <<300, 400>>, <<400, 500>>>>

\* The ranges [start, end] with start < end.
RangeInputs ==
    {r \in (0..MaxRangeEnd) \X (0..MaxRangeEnd) : r[1] < r[2]}

RangeListInputs == UNION {[1..n -> RangeInputs] : n \in 0..MaxRanges}

InitStartFrame ==
    /\ TcOff
    /\ AdrOff
    /\ MergeOff
    /\ RunOff
    /\ ScanOff
    /\ video_fps = 24000
    /\ call_pc = "update_start_frame"
    /\ call_args \in
           {<<ranges, start>> : ranges \in RangeListInputs,
                                start \in 0..(MaxRangeEnd + 1)}
               \cup {<<TestRanges, TestStartFrame>>}
    /\ call_ret = <<>>

UpdateStartFrameCall ==
    /\ call_pc = "update_start_frame"
    /\ call_ret' = UpdateStartFrame(call_args[1], call_args[2])
    /\ call_pc' = "update_start_frame.return"
    /\ UNCHANGED <<video_fps, call_args, tc_vars, adr_vars, merge_vars,
                   scan_vars, run_vars>>

NextStartFrame == UpdateStartFrameCall

SpecStartFrame == InitStartFrame /\ [][NextStartFrame]_vars

\* C13: update_start_frame returns, in their order, the ranges whose end
\* is not before S, a range with start <= S <= end having its start
\* replaced by S and every other range unchanged; every returned range
\* starts at S or later; and the test input gives the test's result.
C13_UpdatedRanges ==
    call_pc = "update_start_frame.return" =>
        LET ranges == call_args[1]
            S == call_args[2]
            Kept == {i \in 1..Len(ranges) : ranges[i][2] >= S}
        IN  /\ Len(call_ret) = Cardinality(Kept)
            /\ \E f \in [1..Len(call_ret) -> Kept] :
                   /\ \A k, l \in 1..Len(call_ret) : k < l => f[k] < f[l]
                   /\ \A k \in 1..Len(call_ret) :
                          LET r == ranges[f[k]] IN
                          call_ret[k] = IF r[1] <= S /\ S <= r[2]
                                        THEN <<S, r[2]>> ELSE r
            /\ \A k \in 1..Len(call_ret) : call_ret[k][1] >= S
            /\ (ranges = TestRanges /\ S = TestStartFrame) =>
                   call_ret = TestUpdatedRanges

\* A range before S is dropped, the range around S is clipped and a later
\* range is returned as it was.
C13_Witness ==
    /\ call_pc = "update_start_frame.return"
    /\ call_args = <<<<<<0, 1>>, <<1, 3>>, <<3, 4>>>>, 2>>
    /\ call_ret = <<<<2, 3>>, <<3, 4>>>>

-----------------------------------------------------------------------------
(* add_real_timestamps on a timeline.                                      *)

\* merged_dict of test_add_real_timestamps, and the REAL TC IN / REAL TC
\* OUT its fixture expects at 24 and at 25 frames per second.
TestMergedDict == <<
    <<418,
      Event(<<"A", "D", "R", ":", " ", "A", "h", "a", " ", "o", "k">>,
            <<"0", "0", ":", "0", "0", ":", "1", "2", ":", "1", "0">>,
            <<"0", "0", ":", "0", "0", ":", "1", "3", ":", "1", "1">>, 443)>>,
    <<993,
      Event(<<"V", "F", "X", ":", " ", "P", "H", "O", "N", "E", " ",
                    "I", "N", "S", "E", "R", "T", "\n", "V", "F", "X", ":",
                    " ", "S", "P", "L", "I", "T", " ", "S", "C", "R", "E",
                    "E", "N">>,
            <<"0", "0", ":", "0", "7", ":", "4", "5", ":", "0", "8">>,
            <<"0", "0", ":", "0", "7", ":", "5", "4", ":", "0", "1">>, 1202)>>,
    <<2735,
      Event(<<"V", "F", "X", ":", " ", "C", "L", "E", "A", "N", "U",
                  "P">>,
            <<"0", "0", ":", "0", "8", ":", "2", "7", ":", "0", "4">>,
            <<"0", "0", ":", "0", "8", ":", "3", "2", ":", "0", "0">>, 2851)>>,
    <<2833,
      Event(<<"A", "D", "R", ":", " ", "H", "m", "m">>,
            <<"0", "0", ":", "0", "8", ":", "3", "1", ":", "0", "6">>,
            <<"0", "0", ":", "0", "8", ":", "3", "1", ":", "2", "3">>, 2850)>>
    >>

TestRealTc24 == <<
    <<<<"0", "0", ":", "0", "0", ":", "1", "7", ":", "1", "0">>,
      <<"0", "0", ":", "0", "0", ":", "1", "8", ":", "1", "1">>>>,
    <<<<"0", "0", ":", "0", "0", ":", "4", "1", ":", "0", "9">>,
      <<"0", "0", ":", "0", "0", ":", "5", "0", ":", "0", "2">>>>,
    <<<<"0", "0", ":", "0", "1", ":", "5", "3", ":", "2", "3">>,
      <<"0", "0", ":", "0", "1", ":", "5", "8", ":", "1", "9">>>>,
    <<<<"0", "0", ":", "0", "1", ":", "5", "8", ":", "0", "1">>,
      <<"0", "0", ":", "0", "1", ":", "5", "8", ":", "1", "8">>>>
    >>

TestRealTc25 == <<
    <<<<"0", "0", ":", "0", "0", ":", "1", "6", ":", "1", "8">>,
      <<"0", "0", ":", "0", "0", ":", "1", "7", ":", "1", "8">>>>,
    <<<<"0", "0", ":", "0", "0", ":", "3", "9", ":", "1", "8">>,
      <<"0", "0", ":", "0", "0", ":", "4", "8", ":", "0", "2">>>>,
    <<<<"0", "0", ":", "0", "1", ":", "4", "9", ":", "1", "0">>,
      <<"0", "0", ":", "0", "1", ":", "5", "4", ":", "0", "1">>>>,
    <<<<"0", "0", ":", "0", "1", ":", "5", "3", ":", "0", "8">>,
      <<"0", "0", ":", "0", "1", ":", "5", "4", ":", "0", "0">>>>
    >>

\* The timelines on keys 1..MaxMergeKey, in any key order, each event a
\* VFX or an ADR event.
TimelineInputs ==
    {[i \in 1..Len(q) |->
         <<q[i], IF q[i] \in A THEN AdrEventAt(q[i]) ELSE VfxEventAt(q[i])>>] :
       q \in KeyOrders(1..MaxMergeKey), A \in SUBSET (1..MaxMergeKey)}
        \cup {TestMergedDict}

InitTimestamps ==
    /\ TcOff
    /\ AdrOff
    /\ MergeOff
    /\ RunOff
    /\ ScanOff
    /\ video_fps \in FpsSet
    /\ call_pc = "add_real_timestamps"
    /\ call_args \in TimelineInputs
    /\ call_ret = <<>>

AddRealTimestampsOnly ==
    /\ call_pc = "add_real_timestamps"
    /\ call_ret' = AddRealTimestamps(call_args)
    /\ call_pc' = "add_real_timestamps.return"
    /\ UNCHANGED <<video_fps, call_args, tc_vars, adr_vars, merge_vars,
                   scan_vars, run_vars>>

NextTimestamps == AddRealTimestampsOnly

SpecTimestamps == InitTimestamps /\ [][NextTimestamps]_vars

RealFields == {"REAL TC IN", "REAL TC OUT"}

\* C14: add_real_timestamps returns the timeline with the same keys in
\* the same order, every field of every event as it was, and two added
\* fields: REAL TC IN, the conversion of the key, and REAL TC OUT, the
\* conversion of FRAME OUT; the test's timeline gets the test's values.
C14_OnlyAnnotates ==
    call_pc = "add_real_timestamps.return" =>
        /\ call_ret.exc = ""
        /\ Len(call_ret.val) = Len(call_args)
        /\ \A i \in 1..Len(call_args) :
               LET before == call_args[i][2]
                   after == call_ret.val[i][2]
               IN  /\ call_ret.val[i][1] = call_args[i][1]
                   /\ DOMAIN after = DOMAIN before \cup RealFields
                   /\ \A field \in DOMAIN before \ RealFields :
                          after[field] = before[field]
                   /\ after["REAL TC IN"] =
                          ConvertCurrentFrameToTc(call_args[i][1], video_fps)
                   /\ after["REAL TC OUT"] =
                          ConvertCurrentFrameToTc(before["FRAME OUT"],
                                                  video_fps)
        /\ \A t \in {<<24000, TestRealTc24>>, <<25000, TestRealTc25>>} :
               (call_args = TestMergedDict /\ video_fps = t[1]) =>
                   \A i \in 1..Len(call_args) :
                       /\ call_ret.val[i][2]["REAL TC IN"] = t[2][i][1]
                       /\ call_ret.val[i][2]["REAL TC OUT"] = t[2][i][2]

\* A timeline of a VFX and an ADR event, not in key order, annotated.
C14_Witness ==
    /\ call_pc = "add_real_timestamps.return"
    /\ video_fps = 24000
    /\ Len(call_args) = 2
    /\ call_args[1] = <<2, VfxEventAt(2)>>
    /\ call_args[2] = <<1, AdrEventAt(1)>>
    /\ call_ret.val[1][2]["REAL TC OUT"] = ConvertCurrentFrameToTc(4, 24000)
    /\ call_ret.val[2][2]["REAL TC IN"] = ConvertCurrentFrameToTc(1, 24000)

-----------------------------------------------------------------------------
(* generate_adr_text, one loop iteration at a time.                        *)

\* A video is laid out as blocks of frames of one kind: frames with an ADR
\* cue, with two ADR cues, with other text, and frames that are not
\* flagged (a gap in the flagged-frame list).
ScanBlocks ==
    {<<"adr", 1>>, <<"adr", Stride>>, <<"adr2", 1>>,
     <<"noise", 1>>, <<"noise", Stride - 1>>, <<"blank", 1>>}

ScanLayouts == UNION {[1..n -> ScanBlocks] : n \in 0..MaxBlocks}

RECURSIVE KindsOfLayout(_)
KindsOfLayout(layout) ==
    IF layout = <<>> THEN <<>>
    ELSE [k \in 1..Head(layout)[2] |-> Head(layout)[1]]
             \o KindsOfLayout(Tail(layout))

InitScan ==
    /\ TcOff
    /\ AdrOff
    /\ MergeOff
    /\ CallOff
    /\ video_fps = 24000
    /\ pc = "off"
    /\ error = NoError
    /\ cap_opened = TRUE
    /\ cap_released = 0
    /\ start_frame = 0
    /\ tc_mode = "ok"
    /\ scene_list = <<>>
    /\ \E layout \in ScanLayouts :
           LET kinds == KindsOfLayout(layout) IN
           /\ readable_frames = Len(kinds)
           /\ frame_kind = [f \in 0..(Len(kinds) - 1) |-> kinds[f + 1]]
    /\ frames_with_embedded_text_id = FlaggedFrom(0, readable_frames - 1)
    /\ text_imgs = {f \in DOMAIN frame_kind : frame_kind[f] # "blank"}
    /\ tc_imgs = text_imgs
    /\ thumbnails = {}
    /\ border_imgs = {}
    /\ processed_imgs = {}
    /\ frames_ranges_with_potential_text = <<>>
    /\ found_vfx_text = <<>>
    /\ frames_not_found = <<>>
    /\ found_adr_text = <<>>
    /\ merged_text_dict = <<>>
    /\ final_text_dict = <<>>
    /\ scan_pc = "probe"
    /\ scan_i = 0
    /\ scan_found = <<>>
    /\ walk = NoWalk
    /\ scan_ret = Ok(<<>>)

\* The entry of check_previous_or_next_frames(frames_to_check, frame,
\* found_adr_text, mode), up to the for loop.
StartWalk(frame, mode) ==
    [mode |-> mode,
     frame |-> frame,
     sliced_list |->
         SlicedList(frames_with_embedded_text_id,
                    IndexOf(frames_with_embedded_text_id, frame) - 1, mode),
     j |-> 1,
     boundry |-> FALSE,
     last_frame |-> NONE,
     curr_frame |-> NONE,
     reads |-> <<>>,
     done |-> FALSE]

\* One iteration of the while loop that probes frames_to_check[i]: an ADR
\* line on a frame without a record stores the record and calls the
\* backward expansion; otherwise i += 15.
ProbeFrame ==
    /\ scan_pc = "probe"
    /\ scan_i < Len(frames_with_embedded_text_id)
    /\ LET frame == frames_with_embedded_text_id[scan_i + 1] IN
       IF /\ MatchedLines(ReadText(frame), ADR) # <<>>
          /\ ~DictHas(scan_found, frame)
       THEN /\ scan_found' = RecordAdr(scan_found, frame)
            /\ walk' = StartWalk(frame, "previous")
            /\ scan_pc' = "walk"
            /\ UNCHANGED scan_i
       ELSE /\ scan_i' = scan_i + Stride
            /\ UNCHANGED <<scan_found, walk, scan_pc>>
    /\ UNCHANGED <<video_fps, tc_vars, adr_vars, merge_vars, call_vars,
                   run_vars, scan_ret>>

\* One iteration of the for loop of check_previous_or_next_frames.
WalkStep ==
    /\ scan_pc = "walk"
    /\ ~walk.done
    /\ walk.j <= Len(walk.sliced_list)
    /\ LET curr_frame == walk.sliced_list[walk.j] IN
       IF /\ walk.last_frame # NONE
          /\ Abs(curr_frame - walk.last_frame) > 1
       THEN /\ walk' = [walk EXCEPT !.curr_frame = curr_frame,
                                    !.done = TRUE]
            /\ UNCHANGED scan_found
       ELSE IF walk.boundry
       THEN /\ walk' = [walk EXCEPT !.curr_frame = curr_frame,
                                    !.reads = Append(@, curr_frame),
                                    !.done = TRUE]
            /\ UNCHANGED scan_found
       ELSE /\ scan_found' = RecordAdr(scan_found, curr_frame)
            /\ walk' = [walk EXCEPT
                            !.curr_frame = curr_frame,
                            !.reads = Append(@, curr_frame),
                            !.boundry =
                                MatchedLines(ReadText(curr_frame), ADR) = <<>>,
                            !.last_frame = curr_frame,
                            !.j = @ + 1]
    /\ UNCHANGED <<video_fps, tc_vars, adr_vars, merge_vars, call_vars,
                   run_vars, scan_pc, scan_i, scan_ret>>

\* The end of a check_previous_or_next_frames call: the backward call is
\* followed by the forward call; the forward call computes new_index from
\* curr_frame (unbound if the loop never ran) and generate_adr_text sets
\* i = new_index + 15.
WalkReturn ==
    /\ scan_pc = "walk"
    /\ walk.done \/ walk.j > Len(walk.sliced_list)
    /\ IF walk.mode = "previous"
       THEN /\ walk' = StartWalk(walk.frame, "next")
            /\ UNCHANGED <<scan_pc, scan_i, scan_ret>>
       ELSE IF walk.curr_frame = NONE
       THEN /\ scan_ret' = Raise("UnboundLocalError")
            /\ scan_pc' = "raised"
            /\ walk' = NoWalk
            /\ UNCHANGED scan_i
       ELSE /\ scan_i' = (IndexOf(frames_with_embedded_text_id,
                                  walk.curr_frame) - 1) + Stride
            /\ scan_pc' = "probe"
            /\ walk' = NoWalk
            /\ UNCHANGED scan_ret
    /\ UNCHANGED <<video_fps, tc_vars, adr_vars, merge_vars, call_vars,
                   run_vars, scan_found>>

\* The end of the while loop: the map is sorted, reduced and returned.
ScanReturn ==
    /\ scan_pc = "probe"
    /\ scan_i >= Len(frames_with_embedded_text_id)
    /\ scan_ret' = ReduceScanned(Ok(scan_found))
    /\ scan_pc' = "returned"
    /\ UNCHANGED <<video_fps, tc_vars, adr_vars, merge_vars, call_vars,
                   run_vars, scan_i, scan_found, walk>>

NextScan == ProbeFrame \/ WalkStep \/ WalkReturn \/ ScanReturn

SpecScan == InitScan /\ [][NextScan]_vars

-----------------------------------------------------------------------------
(* Claims about generate_adr_text, checked under SpecScan.                 *)

\* Frame f is flagged and its text crop holds an ADR line.
IsAdrFrame(f) == f \in DOMAIN frame_kind /\ frame_kind[f] \in {"adr", "adr2"}

IsFlagged(f) == f \in DOMAIN frame_kind /\ frame_kind[f] # "blank"

\* C15: generate_adr_text returns an ADR map and never raises, whatever
\* the flagged-frame list and the OCR outcomes, also for a hit on the
\* last or on the first entry of the list.
C15_ScanNeverRaises ==
    /\ scan_pc # "raised"
    /\ scan_ret.exc = ""

\* C16: every returned ADR event covers exactly one maximal set of
\* consecutively numbered flagged frames that carry an ADR line: its key
\* is the first frame of the set and FRAME OUT the frame after the last.
C16_EventIsMaximalRun ==
    scan_pc = "returned" =>
        \A i \in 1..Len(scan_ret.val) :
            LET first == scan_ret.val[i][1]
                frame_out == scan_ret.val[i][2]["FRAME OUT"]
            IN  /\ first < frame_out
                /\ \A f \in first..(frame_out - 1) : IsAdrFrame(f)
                /\ ~IsAdrFrame(first - 1)
                /\ ~IsAdrFrame(frame_out)

\* The stride probe lands in the middle of frames 14..16 and the event
\* returned covers all three.
C16_Witness ==
    /\ scan_pc = "returned"
    /\ Len(frames_with_embedded_text_id) = Stride + 2
    /\ frame_kind[Stride - 2] = "noise"
    /\ Len(scan_ret.val) = 1
    /\ scan_ret.val[1][1] = Stride - 1
    /\ scan_ret.val[1][2]["FRAME OUT"] = Stride + 2

\* C17: every maximal run of at least 15 consecutive flagged frames that
\* carry an ADR line has an event in the returned map.
C17_LongRunsFound ==
    scan_pc = "returned" =>
        \A a, b \in DOMAIN frame_kind :
            (/\ b - a + 1 >= Stride
             /\ \A f \in a..b : IsAdrFrame(f)
             /\ ~IsAdrFrame(a - 1)
             /\ ~IsAdrFrame(b + 1))
                => \E i \in 1..Len(scan_ret.val) : scan_ret.val[i][1] = a

\* C18: an expansion starts with the backward walk, the forward walk
\* follows it, the scan resumes at the index the forward walk returned,
\* and a probe without a hit advances the index by the stride.
C18_ScanStateMachine ==
    [][/\ (walk.mode = "none" /\ walk'.mode # "none")
            => walk'.mode = "previous"
       /\ (walk.mode = "previous" /\ walk'.mode # "previous")
            => walk'.mode = "next"
       /\ (walk.mode = "next" /\ scan_pc' = "probe")
            => scan_i' = IndexOf(frames_with_embedded_text_id,
                                 walk.curr_frame) - 1
       /\ (scan_pc = "probe" /\ scan_pc' = "probe")
            => scan_i' = scan_i + Stride]_vars

\* C19: every frame read while walking backward (forward) from a hit at
\* frame F is smaller (greater) than F, and all frame numbers between it
\* and F are flagged.
C19_WalkIsContiguous ==
    scan_pc = "walk" =>
        \A k \in 1..Len(walk.reads) :
            LET f == walk.reads[k] IN
            IF walk.mode = "previous"
            THEN f < walk.frame /\ \A g \in f..walk.frame : IsFlagged(g)
            ELSE f > walk.frame /\ \A g \in walk.frame..f : IsFlagged(g)

\* The first ADR line of a frame, as the OCR reads it.
FirstAdrLine(f) ==
    IF frame_kind[f] = "adr2" THEN <<"A", "D", "R", " ", "2">>
    ELSE <<"A", "D", "R", " ", "1">>

C20_RunningMap ==
    \A i \in 1..Len(scan_found) :
        LET f == scan_found[i][1] IN
        /\ InList(frames_with_embedded_text_id, f)
        /\ IsAdrFrame(f)
        /\ scan_found[i][2]["TEXT"] = FirstAdrLine(f)
        /\ scan_found[i][2]["TC"] = BurnedInTc(f, video_fps)
        /\ \A j \in 1..Len(scan_found) : scan_found[j][1] = f => j = i

C20_WrittenOnce ==
    \A i \in 1..Len(scan_found) :
        i <= Len(scan_found') /\ scan_found'[i] = scan_found[i]

\* C20: at every point of generate_adr_text each key of the running map
\* is a flagged frame with an ADR line, its TEXT the first ADR line and its
\* TC the timecode of that frame; and a record, once written, is never
\* changed.
C20_FirstWriterWins == []C20_RunningMap /\ [][C20_WrittenOnce]_vars

\* The forward walk reads a frame with two ADR lines that the backward
\* walk from the first list entry has recorded already.
C20_Witness ==
    /\ scan_pc = "walk"
    /\ walk.mode = "next"
    /\ walk.reads = <<1>>
    /\ frame_kind[1] = "adr2"
    /\ DictHas(scan_found, 1)
    /\ DictGet(scan_found, 1)["TEXT"] = <<"A", "D", "R", " ", "2">>

-----------------------------------------------------------------------------
(* Claims about the candidate ranges.                                      *)

\* C26: every range update_start_frame returns is a non-empty half-open
\* range, start < end, for every list of ranges with start < end and every
\* start frame S, also when S is the end of a range.
C26_RangesNonEmpty ==
    call_pc = "update_start_frame.return" =>
        \A k \in 1..Len(call_ret) : call_ret[k][1] < call_ret[k][2]

\* The sparse sample of a clipped scene range meets the flagged list.
SparseSampleFlagged(r, flagged) ==
    \E i \in 0..4 : InList(flagged, r[1] + ((i * (r[2] - r[1])) \div 5))

\* C24: check_if_scenes_can_contain_text returns, in scene order and each
\* once, exactly the clipped scene ranges with a sparse sample frame in the
\* flagged list, each pair being that of the scene whose samples matched.
C24_RangesOfMatchingScenes ==
    pc \in {"pictures", "vfx", "adr", "merge", "timestamps", "report"} =>
        frames_ranges_with_potential_text =
            SelectSeq(UpdateStartFrame(scene_list, start_frame),
                      LAMBDA r : SparseSampleFlagged(r,
                                     frames_with_embedded_text_id))

\* C30: when strictly more than half of the strings passed to
\* construct_most_common_word equal one string s without trailing
\* whitespace, the result is s, whatever the other strings are and
\* wherever they stand in the list.
C30_MajorityDominates ==
    call_pc = "construct_most_common_word.return" =>
        \A j \in 1..Len(call_args) :
            LET s == call_args[j]
                equal == {k \in 1..Len(call_args) : call_args[k] = s}
            IN  (/\ 2 * Cardinality(equal) > Len(call_args)
                 /\ (s = <<>> \/ ~IsSpace(s[Len(s)])))
                    => call_ret = s

\* Two of three strings are "a"; the first string is longer and differs
\* in every column.
C30_Witness ==
    /\ call_pc = "construct_most_common_word.return"
    /\ call_args = <<<<"b", "b">>, <<"a">>, <<"a">>>>
    /\ call_ret = <<"a">>

-----------------------------------------------------------------------------
(* evenly_spaced_nums_from_range on a range and a count.                   *)

SampleInputs ==
    {<<<<start, start + span>>, q_nums, nums_with_borders>> :
        start \in 0..MaxSampleStart, span \in 1..MaxSpan,
        q_nums \in 1..MaxQNums, nums_with_borders \in BOOLEAN}

InitSample ==
    /\ TcOff
    /\ AdrOff
    /\ MergeOff
    /\ RunOff
    /\ ScanOff
    /\ video_fps = 24000
    /\ call_pc = "evenly_spaced_nums_from_range"
    /\ call_args \in SampleInputs
    /\ call_ret = <<>>

EvenlySpacedNumsFromRangeCall ==
    /\ call_pc = "evenly_spaced_nums_from_range"
    /\ call_ret' =
           IF call_args[3]
           THEN EvenlySpacedNumsFromRange(call_args[1], call_args[2])
           ELSE NumbersFromCenter(
                    EvenlySpacedNumsFromRange(call_args[1], call_args[2]))
    /\ call_pc' = "evenly_spaced_nums_from_range.return"
    /\ UNCHANGED <<video_fps, call_args, tc_vars, adr_vars, merge_vars,
                   scan_vars, run_vars>>

NextSample == EvenlySpacedNumsFromRangeCall

SpecSample == InitSample /\ [][NextSample]_vars

-----------------------------------------------------------------------------
(* Claims about the frame scan.                                            *)

\* C28: once generate_imgs_with_text_from_video has returned, its list of
\* flagged frames is strictly increasing and holds only frames from
\* start_frame on, a text crop and a timecode crop exist for exactly the
\* frames of the list, and no extractor has produced anything before the
\* scan returned.
C28_CropCacheContract ==
    /\ pc \in {"detect_scenes", "check_scenes", "pictures", "vfx", "adr",
                "merge", "timestamps", "report"} =>
           LET flagged == frames_with_embedded_text_id IN
           /\ \A i, j \in 1..Len(flagged) : i < j => flagged[i] < flagged[j]
           /\ \A i \in 1..Len(flagged) : flagged[i] >= start_frame
           /\ text_imgs = {flagged[i] : i \in 1..Len(flagged)}
           /\ tc_imgs = {flagged[i] : i \in 1..Len(flagged)}
    /\ pc = "scan" =>
           /\ text_imgs = {} /\ tc_imgs = {}
           /\ found_vfx_text = <<>> /\ found_adr_text = <<>>

\* The ADR extractor is about to run on a scan that started at frame 1
\* and skipped a frame with text before it.
C28_Witness ==
    /\ pc = "adr"
    /\ start_frame = 1
    /\ frame_kind[0] # "blank"
    /\ frames_with_embedded_text_id = <<1, 2>>
    /\ text_imgs = {1, 2}

-----------------------------------------------------------------------------
(* The scan on a handle that may be closed, and the exit on an error.      *)

\* files_save_dir of the run.
FilesPaths == {"out", "videos/out"}

\* What the user types at the prompt.
Choices ==
    {<<>>, <<"y">>, <<"Y">>, <<"y", "e", "s">>, <<"Y", "E", "S">>,
     <<"Y", "e", "s">>, <<"n">>, <<"n", "o">>, <<"y", "e">>}

\* str.lower() on the letters of Choices.
LowerChar(c) ==
    CASE c = "Y" -> "y"
      [] c = "E" -> "e"
      [] c = "S" -> "s"
      [] OTHER -> c

Lower(str) == [k \in 1..Len(str) |-> LowerChar(str[k])]

\* f"{dir_path}/temp"
TempOf(dir_path) == <<dir_path, "temp">>

\* main() has created the temp folders of the run under files_path; a
\* folder of another name may exist beside them.
InitOpen ==
    /\ TcOff
    /\ AdrOff
    /\ MergeOff
    /\ ScanOff
    /\ video_fps = 24000
    /\ pc = "off"
    /\ error = NoError
    /\ cap_released = 0
    /\ start_frame \in Frames
    /\ tc_mode = "ok"
    /\ scene_list = <<>>
    /\ FilesEmpty
    /\ ResultsEmpty
    /\ \/ /\ cap_opened = TRUE
          /\ readable_frames = VideoLength
          /\ frame_kind \in [Frames -> {"blank", "noise"}]
       \/ /\ cap_opened = FALSE
          /\ readable_frames = 0
          /\ frame_kind = [f \in Frames |-> "blank"]
    /\ call_pc = "generate_imgs_with_text_from_video"
    /\ \E files_path \in FilesPaths,
          others \in SUBSET {TempOf("Error opening video file")} :
           /\ call_args = [files_path |-> files_path]
           /\ call_ret = [folders |-> {TempOf(files_path)} \cup others,
                          dir_path |-> "", optional_print |-> "",
                          choice |-> <<>>, printed |-> <<>>]

\* generate_imgs_with_text_from_video up to its return, or up to the
\* prompt of delete_temp_folder_on_error_and_exit("Error opening video
\* file"): the one positional argument binds dir_path.
OpenCheck ==
    /\ call_pc = "generate_imgs_with_text_from_video"
    /\ IF ~cap_opened
       THEN /\ call_ret' = [call_ret EXCEPT
                               !.dir_path = "Error opening video file",
                               !.optional_print = ""]
            /\ call_pc' = "delete_temp_folder_on_error_and_exit"
            /\ UNCHANGED <<file_vars, result_vars>>
       ELSE LET flagged == FlaggedFrom(start_frame, readable_frames - 1) IN
            /\ frames_with_embedded_text_id' = flagged
            /\ text_imgs' = {flagged[i] : i \in 1..Len(flagged)}
            /\ tc_imgs' = {flagged[i] : i \in 1..Len(flagged)}
            /\ call_pc' = "generate_imgs_with_text_from_video.return"
            /\ UNCHANGED <<call_ret, thumbnails, border_imgs, processed_imgs,
                           frames_ranges_with_potential_text, found_vfx_text,
                           frames_not_found, found_adr_text, merged_text_dict,
                           final_text_dict>>
    /\ UNCHANGED <<video_fps, tc_vars, adr_vars, merge_vars, scan_vars,
                   call_args, pc, error, cap_released, input_vars>>

\* delete_temp_folder_on_error_and_exit from the first input() to the
\* second: the answer decides on delete_folder(f"{dir_path}/temp").
AskChoice ==
    /\ call_pc = "delete_temp_folder_on_error_and_exit"
    /\ \E choice \in Choices :
           call_ret' =
               [call_ret EXCEPT
                   !.choice = choice,
                   !.printed =
                       IF call_ret.optional_print # ""
                       THEN Append(@, call_ret.optional_print) ELSE @,
                   !.folders =
                       IF Lower(choice) \in {<<"y">>, <<"y", "e", "s">>, <<>>}
                       THEN @ \ {TempOf(call_ret.dir_path)} ELSE @]
    /\ call_pc' = "press_enter"
    /\ UNCHANGED <<video_fps, tc_vars, adr_vars, merge_vars, scan_vars,
                   call_args, run_vars>>

\* input("No files deleted. Press Enter to exit: "); sys.exit()
SysExit ==
    /\ call_pc = "press_enter"
    /\ call_pc' = "exited"
    /\ UNCHANGED <<video_fps, tc_vars, adr_vars, merge_vars, scan_vars,
                   call_args, call_ret, run_vars>>

NextOpen == OpenCheck \/ AskChoice \/ SysExit

SpecOpen == InitOpen /\ [][NextOpen]_vars

\* C29: when the handle is not open at the start of the scan no crop is
\* saved and no frame flagged, the run ends through
\* delete_temp_folder_on_error_and_exit, and the folder offered for
\* deletion, and deleted on 'y', 'yes' or an empty answer, is the temp
\* folder of this run.
C29_OpenFailureCleansRunTemp ==
    ~cap_opened =>
        /\ text_imgs = {} /\ tc_imgs = {}
        /\ frames_with_embedded_text_id = <<>>
        /\ call_pc \in {"generate_imgs_with_text_from_video",
                         "delete_temp_folder_on_error_and_exit",
                         "press_enter", "exited"}
        /\ call_pc \in {"delete_temp_folder_on_error_and_exit",
                         "press_enter", "exited"} =>
               TempOf(call_ret.dir_path) = TempOf(call_args.files_path)
        /\ (/\ call_pc \in {"press_enter", "exited"}
            /\ Lower(call_ret.choice) \in {<<"y">>, <<"y", "e", "s">>, <<>>})
               => ~(TempOf(call_args.files_path) \in call_ret.folders)

-----------------------------------------------------------------------------
(* generate_vfx_text, one candidate range at a time.                       *)

\* A local variable that has not been assigned.
Unbound == <<"unbound">>

ProbedFromSkippingFirst(frame_range, numbers_to_check, j) ==
    {numbers_to_check[k] : k \in j..Len(numbers_to_check)}
        \cap ((frame_range[1] + 1)..(frame_range[2] - 1))

\* The frames of numbers_to_check[j..] whose text crop the inner loop
\* opens: those before the range are skipped, the first one after its
\* last frame ends the loop.
RECURSIVE ProbedFrom(_, _, _)
ProbedFrom(frame_range, numbers_to_check, j) ==
    IF j > Len(numbers_to_check) THEN {}
    ELSE IF numbers_to_check[j] < frame_range[1]
    THEN ProbedFrom(frame_range, numbers_to_check, j + 1)
    ELSE IF numbers_to_check[j] > frame_range[2] - 1 THEN {}
    ELSE {numbers_to_check[j]}
             \cup ProbedFrom(frame_range, numbers_to_check, j + 1)

\* The first try block: generate_processed_pictures raises cv2.error on a
\* border picture that was never saved; a processed crop that could not
\* be written makes Image.open raise FileNotFoundError, which is caught
\* and leaves first_frame_tc as it was.
ReadFirstBorder(st, i, first, write_fails) ==
    IF ~(first \in border_imgs) THEN [st EXCEPT !.exc = "cv2.error"]
    ELSE IF first \in write_fails
    THEN [st EXCEPT !.not_found = Append(@, first)]
    ELSE [st EXCEPT
             !.processed = @ \cup {first},
             !.first_frame_tc =
                 TcCleanupFromPotentialErrors(ReadTc(first), first),
             !.first_at = i]

\* tc_out after the second try block without FileNotFoundError.
TcOutOf(last_frame_tc, added) ==
    IF added.exc = "ValueError" THEN last_frame_tc ELSE added.val

\* The second try block: the FileNotFoundError handler assigns
\* tc_out = last_frame_tc.
ReadLastBorder(st, i, last, write_fails) ==
    IF st.exc # "" THEN st
    ELSE IF ~(last \in border_imgs) THEN [st EXCEPT !.exc = "cv2.error"]
    ELSE IF last \in write_fails
    THEN IF st.last_frame_tc = Unbound
         THEN [st EXCEPT !.not_found = Append(@, last),
                         !.exc = "UnboundLocalError"]
         ELSE [st EXCEPT !.not_found = Append(@, last),
                         !.tc_out = st.last_frame_tc,
                         !.out_at = st.last_at]
    ELSE [st EXCEPT
             !.processed = @ \cup {last},
             !.last_frame_tc =
                 TcCleanupFromPotentialErrors(ReadTc(last), last),
             !.last_at = i,
             !.tc_out =
                 TcOutOf(TcCleanupFromPotentialErrors(ReadTc(last), last),
                     ReadTcAddOneFrame(
                         TcCleanupFromPotentialErrors(ReadTc(last), last),
                         video_fps)),
             !.out_at = i]

\* if first_frame_of_scene not in found_vfx_text: the event is stored;
\* emitted notes for which range each timecode was read.
StoreEvent(st, i, frame_range, most_probable_text) ==
    IF st.exc # "" \/ DictHas(st.found, frame_range[1]) THEN st
    ELSE IF st.first_frame_tc = Unbound
    THEN [st EXCEPT !.exc = "UnboundLocalError"]
    ELSE [st EXCEPT
             !.found = DictSet(@, frame_range[1],
                           Event(most_probable_text, st.first_frame_tc,
                                 st.tc_out, frame_range[2])),
             !.emitted = Append(@, [range |-> i, tc_in_at |-> st.first_at,
                                    tc_out_at |-> st.out_at])]

\* One iteration of the outer loop on ranges[i].
VfxIteration(st, i, frame_range, sampled, write_fails) ==
    IF sampled.texts = <<>>
    THEN [st EXCEPT !.not_found = sampled.not_found]
    ELSE StoreEvent(
             ReadLastBorder(
                 ReadFirstBorder([st EXCEPT !.not_found = sampled.not_found],
                                 i, frame_range[1], write_fails),
                 i, frame_range[2] - 1, write_fails),
             i, frame_range, ConstructMostCommonWord(sampled.texts))

\* The state generate_vfx_text is called in: the scan, the scene check
\* and the picture generator have run; write_fails are the frames whose
\* processed crop cv2.imwrite will fail to save.
InitVfx ==
    /\ TcOff
    /\ AdrOff
    /\ MergeOff
    /\ ScanOff
    /\ video_fps = 24000
    /\ pc = "off"
    /\ error = NoError
    /\ cap_opened = TRUE
    /\ cap_released = 0
    /\ start_frame \in Frames
    /\ readable_frames \in {VideoLength - 1, VideoLength}
    /\ frame_kind \in [Frames -> {"blank", "noise", "vfx"}]
    /\ tc_mode \in {"ok", "wrong", "empty"}
    /\ scene_list \in SceneLists
    /\ frames_with_embedded_text_id =
           FlaggedFrom(start_frame, readable_frames - 1)
    /\ text_imgs = {f \in start_frame..(readable_frames - 1) :
                        frame_kind[f] # "blank"}
    /\ tc_imgs = text_imgs
    /\ frames_ranges_with_potential_text =
           CheckIfScenesCanContainText(scene_list,
               FlaggedFrom(start_frame, readable_frames - 1), start_frame)
    /\ border_imgs =
           {n \in Frames :
               /\ FoundFrame(n)
               /\ \E k \in 1..Len(frames_ranges_with_potential_text) :
                      \/ n = frames_ranges_with_potential_text[k][1]
                      \/ n = frames_ranges_with_potential_text[k][2] - 1}
    /\ thumbnails =
           {n \in border_imgs :
               \E k \in 1..Len(frames_ranges_with_potential_text) :
                   \/ n = frames_ranges_with_potential_text[k][1]
                   \/ /\ n = frames_ranges_with_potential_text[k][2] - 1
                      /\ ~FoundFrame(
                             frames_ranges_with_potential_text[k][1])}
    /\ processed_imgs = {}
    /\ found_vfx_text = <<>>
    /\ frames_not_found = <<>>
    /\ found_adr_text = <<>>
    /\ merged_text_dict = <<>>
    /\ final_text_dict = <<>>
    /\ call_pc = "generate_vfx_text"
    /\ call_args \in [write_fails : SUBSET border_imgs]
    /\ call_ret = [i |-> 1, probed |-> {},
                   st |-> [exc |-> "", found |-> <<>>, not_found |-> <<>>,
                           processed |-> {}, emitted |-> <<>>,
                           first_frame_tc |-> Unbound,
                           last_frame_tc |-> Unbound, tc_out |-> Unbound,
                           first_at |-> 0, last_at |-> 0, out_at |-> 0]]

VfxStep(st) ==
    /\ call_ret' =
           [i |-> call_ret.i + 1,
            probed |-> call_ret.probed
                \cup {<<call_ret.i, f>> :
                         f \in ProbedFrom(
                             frames_ranges_with_potential_text[call_ret.i],
                             EvenlySpacedNumsFromRange(
                                 frames_ranges_with_potential_text[call_ret.i],
                                 8), 1)},
            st |-> st]
    /\ processed_imgs' = st.processed
    /\ IF st.exc # ""
       THEN /\ call_pc' = "generate_vfx_text.raised"
            /\ UNCHANGED <<found_vfx_text, frames_not_found>>
       ELSE /\ found_vfx_text' = st.found
            /\ frames_not_found' = st.not_found
            /\ UNCHANGED call_pc

\* The body of the for loop over potential_frames_ranges_with_vfx_text.
VfxRangeStep ==
    /\ call_pc = "generate_vfx_text"
    /\ call_ret.i <= Len(frames_ranges_with_potential_text)
    /\ VfxStep(VfxIteration(call_ret.st, call_ret.i,
           frames_ranges_with_potential_text[call_ret.i],
           SampleRange(frames_ranges_with_potential_text[call_ret.i],
               EvenlySpacedNumsFromRange(
                   frames_ranges_with_potential_text[call_ret.i], 8),
               1, <<>>, call_ret.st.not_found),
           call_args.write_fails))
    /\ UNCHANGED <<video_fps, tc_vars, adr_vars, merge_vars, scan_vars,
                   call_args, pc, error, cap_released, input_vars, text_imgs,
                   tc_imgs, thumbnails, border_imgs,
                   frames_with_embedded_text_id,
                   frames_ranges_with_potential_text, found_adr_text,
                   merged_text_dict, final_text_dict>>

\* return found_vfx_text
VfxLoopEnd ==
    /\ call_pc = "generate_vfx_text"
    /\ call_ret.i > Len(frames_ranges_with_potential_text)
    /\ call_pc' = "generate_vfx_text.return"
    /\ UNCHANGED <<video_fps, tc_vars, adr_vars, merge_vars, scan_vars,
                   call_args, call_ret, run_vars>>

NextVfx == VfxRangeStep \/ VfxLoopEnd

SpecVfx == InitVfx /\ [][NextVfx]_vars

\* Sample k (from 0) of the dense sample of range r.
DenseSample(r, k) == r[1] + ((k * (r[2] - r[1])) \div 8)

\* The dense samples of range r, frames of the range, that show a VFX
\* note on a saved crop.
VfxSamples(r) ==
    {k \in 0..7 : /\ DenseSample(r, k) \in r[1]..(r[2] - 1)
                  /\ DenseSample(r, k) \in text_imgs
                  /\ frame_kind[DenseSample(r, k)] = "vfx"}

\* The timecode of frame f as sanitised from its crop.
SanitizedTc(f) == TcCleanupFromPotentialErrors(ReadTc(f), f)

\* The event claimed for range r.
ClaimedVfxEvent(r) ==
    Event(ConstructMostCommonWord(
              [j \in 1..Cardinality(VfxSamples(r)) |->
                  <<"V", "F", "X", " ", "1">>]),
          SanitizedTc(r[1]),
          ReadTcAddOneFrame(SanitizedTc(r[2] - 1), video_fps).val,
          r[2])

\* C21: generate_vfx_text returns, for each candidate range [s, e) with
\* a VFX match on a sampled frame, one event keyed by s with the consensus
\* text, TC IN the sanitised timecode of s, TC OUT that of e - 1 plus one
\* frame and FRAME OUT e; no event for a range without a match; the first
\* range's event when two ranges start at the same frame.
C21_OneEventPerMatchingRange ==
    call_pc \in {"generate_vfx_text.return", "generate_vfx_text.raised"} =>
        LET ranges == frames_ranges_with_potential_text
            Matching == {i \in 1..Len(ranges) : VfxSamples(ranges[i]) # {}}
        IN  /\ call_pc = "generate_vfx_text.return"
            /\ \A i \in Matching : DictHas(found_vfx_text, ranges[i][1])
            /\ \A n \in 1..Len(found_vfx_text) :
                   /\ \A m \in 1..Len(found_vfx_text) :
                          found_vfx_text[m][1] = found_vfx_text[n][1]
                              => m = n
                   /\ \E i \in Matching :
                          /\ ranges[i][1] = found_vfx_text[n][1]
                          /\ \A j \in Matching :
                                 ranges[j][1] = ranges[i][1] => i <= j
                          /\ found_vfx_text[n][2] = ClaimedVfxEvent(ranges[i])

\* C22: the TC IN and the TC OUT of an emitted VFX event were read in the
\* iteration of its own range, never in that of an earlier range, and
\* neither is used while unassigned.
C22_TcFromOwnRange ==
    call_pc \in {"generate_vfx_text", "generate_vfx_text.return",
                 "generate_vfx_text.raised"} =>
        /\ call_ret.st.exc # "UnboundLocalError"
        /\ \A n \in 1..Len(call_ret.st.emitted) :
               /\ call_ret.st.emitted[n].tc_in_at
                      = call_ret.st.emitted[n].range
               /\ call_ret.st.emitted[n].tc_out_at
                      = call_ret.st.emitted[n].range

\* C23: the frames OCRed for a candidate range [s, e) exclude both range
\* boundaries: neither s nor e is probed.
C23_NoBoundaryProbed ==
    call_pc \in {"generate_vfx_text", "generate_vfx_text.return",
                 "generate_vfx_text.raised"} =>
        \A p \in call_ret.probed :
            /\ p[2] # frames_ranges_with_potential_text[p[1]][1]
            /\ p[2] # frames_ranges_with_potential_text[p[1]][2]

\* C23 as amended: the frames OCRed for a candidate range [s, e) are the
\* eight samples s + floor(k * (e - s) / 8), k = 0..7, all in [s, e - 1]:
\* the end frame e is never probed, the first frame s always is, and an
\* empty range is not probed at all.
C23_ProbedAreDenseSamples ==
    call_pc \in {"generate_vfx_text", "generate_vfx_text.return",
                 "generate_vfx_text.raised"} =>
        \A i \in 1..(call_ret.i - 1) :
            LET r == frames_ranges_with_potential_text[i]
                probed == {p[2] : p \in {x \in call_ret.probed : x[1] = i}}
            IN  /\ probed = IF r[1] < r[2]
                            THEN {DenseSample(r, k) : k \in 0..7} ELSE {}
                /\ probed \subseteq r[1]..(r[2] - 1)
                /\ r[1] < r[2] => r[1] \in probed

\* The range [0, 3) has been sampled: frames 0, 1 and 2 were read.
C23_Witness ==
    /\ call_pc = "generate_vfx_text.return"
    /\ frames_ranges_with_potential_text = <<<<0, 3>>>>
    /\ call_ret.probed = {<<1, 0>>, <<1, 1>>, <<1, 2>>}

\* C25: when the timecode read at the last frame of a VFX range is
\* sanitised to WRONG TC or EMPTY TC, the event is emitted without an
\* exception, TC OUT is that reading unchanged, and a sentinel TC IN is
\* stored as it is.
C25_SentinelPassesThrough ==
    call_pc \in {"generate_vfx_text", "generate_vfx_text.return",
                 "generate_vfx_text.raised"} =>
        \A i \in 1..(call_ret.i - 1) :
            LET r == frames_ranges_with_potential_text[i] IN
            (/\ VfxSamples(r) # {}
             /\ {r[1], r[2] - 1} \subseteq border_imgs
             /\ ~(r[2] - 1 \in call_args.write_fails)
             /\ IsSentinel(SanitizedTc(r[2] - 1)))
                =>
                /\ i = call_ret.i - 1 => call_ret.st.exc = ""
                /\ DictHas(call_ret.st.found, r[1])
                /\ DictGet(call_ret.st.found, r[1])["TC OUT"]
                       = SanitizedTc(r[2] - 1)
                /\ DictGet(call_ret.st.found, r[1])["TC IN"]
                       \in {WRONG_TC, EMPTY_TC}

====
